---- MODULE Spec2Model ----
(***************************************************************************)
(* A model of the Protocol-Lattice/graphql library: the lexer              *)
(* (lexer/lexer.go), the recursive-descent parser (parser/parser.go), the  *)
(* AST, the executor and the HTTP handler.                                 *)
(*                                                                         *)
(* Bytes are modelled as their integer codes, strings as sequences of      *)
(* bytes.  Go's end-of-input sentinel is the byte 0, as in readChar.       *)
(***************************************************************************)
EXTENDS Integers, Sequences, FiniteSets, TLC

(***************************************************************************)
(* Bounds of the model.                                                    *)
(***************************************************************************)
\* longest input string handed to the lexer in LexSpec
MaxInputLen == 4
\* NextToken calls made after the input's length has been used up
ExtraCalls == 2
\* most lexemes that follow the head of an input of ParseSpec
MaxBodyLen == 3
\* the Selections one selection set can hold before the Go runtime has no
\* memory left for the append (more than any input here has tokens)
MaxSelections == 9
\* the entries the three resolver tables hold at most, together
MaxResolvers == 2
\* the events sent on a subscription channel at most
MaxEvents == 2
\* the largest capacity of a subscription channel
MaxChanCap == 1
\* the goroutines that use the one Executor at the same time
MaxGoroutines == 2
\* the longest selection set and the longest variable list of the documents
\* rendered from an AST
MaxFields == 3
MaxVariables == 2
\* the most fields a rendered type definition declares
MaxTypeFields == 2

(***************************************************************************)
(* Byte codes the lexer dispatches on (lexer.go, NextToken).               *)
(***************************************************************************)
ChNul == 0
ChTab == 9
ChNewline == 10
ChReturn == 13
ChSpace == 32
ChBang == 33
ChQuote == 34
ChDollar == 36
ChLParen == 40
ChRParen == 41
ChComma == 44
ChColon == 58
ChSemicolon == 59
ChAssign == 61
ChAt == 64
ChLBracket == 91
ChRBracket == 93
ChUnderscore == 95
ChLBrace == 123
ChRBrace == 125

\* token.TokenType values
ILLEGAL == "ILLEGAL"
EOF == "EOF"
IDENT == "IDENT"
INT == "INT"
\* token.STRING (STRING is a reserved word of TLA+)
STRINGTOK == "STRING"
ASSIGN == "="
COLON == ":"
COMMA == ","
SEMICOLON == ";"
LPAREN == "("
RPAREN == ")"
LBRACE == "{"
RBRACE == "}"
LBRACKET == "["
RBRACKET == "]"
DOLLAR == "$"
BANG == "!"

\* token.Token
Token(type, literal) == [Type |-> type, Literal |-> literal]

\* the zero value of token.Token (var tok token.Token)
ZeroToken == Token("", <<>>)

(***************************************************************************)
(* lexer.Lexer                                                             *)
(***************************************************************************)

\* unicode.IsLetter(rune(ch)) || ch == '_' on a byte: the ASCII letters and
\* the letters of Latin-1 (U+00AA, U+00B5, U+00BA, U+00C0..U+00FF except
\* U+00D7 and U+00F7)
isLetter(ch) ==
    \/ (65 <= ch /\ ch <= 90)
    \/ (97 <= ch /\ ch <= 122)
    \/ ch \in {170, 181, 186}
    \/ (192 <= ch /\ ch <= 255 /\ ch \notin {215, 247})
    \/ ch = ChUnderscore

isDigit(ch) == 48 <= ch /\ ch <= 57

\* readChar advances the lexer to the next character
readChar(l) ==
    [l EXCEPT !.ch = IF l.readPosition >= Len(l.input)
                     THEN ChNul
                     ELSE l.input[l.readPosition + 1],
              !.position = l.readPosition,
              !.readPosition = l.readPosition + 1]

\* New creates a Lexer: the zero Lexer over input, then one readChar
LexerNew(input) ==
    readChar([input |-> input, position |-> 0, readPosition |-> 0, ch |-> ChNul])

RECURSIVE skipWhitespace(_)
skipWhitespace(l) ==
    IF l.ch \in {ChSpace, ChTab, ChNewline, ChReturn}
    THEN skipWhitespace(readChar(l))
    ELSE l

\* input[start:position] of Go, 0-based and half-open
Slice(input, start, end) == SubSeq(input, start + 1, end)

RECURSIVE readIdentifierLoop(_)
readIdentifierLoop(l) ==
    IF isLetter(l.ch) \/ isDigit(l.ch) THEN readIdentifierLoop(readChar(l)) ELSE l

readIdentifier(l) ==
    LET l2 == readIdentifierLoop(l)
    IN  [lit |-> Slice(l.input, l.position, l2.position), l |-> l2]

RECURSIVE readNumberLoop(_)
readNumberLoop(l) ==
    IF isDigit(l.ch) THEN readNumberLoop(readChar(l)) ELSE l

readNumber(l) ==
    LET l2 == readNumberLoop(l)
    IN  [lit |-> Slice(l.input, l.position, l2.position), l |-> l2]

RECURSIVE readStringLoop(_)
readStringLoop(l) ==
    IF l.ch # ChQuote /\ l.ch # ChNul THEN readStringLoop(readChar(l)) ELSE l

readString(l) ==
    LET l1 == readChar(l)           \* skip opening quote
        l2 == readStringLoop(l1)
    IN  [lit |-> Slice(l.input, l1.position, l2.position),
         l |-> readChar(l2)]        \* skip closing quote

\* string(l.ch) of Go on a byte: the UTF-8 encoding of the code point U+00ch,
\* one byte below 0x80 and two bytes from 0x80 on
ByteString(ch) ==
    IF ch < 128 THEN <<ch>> ELSE <<192 + (ch \div 64), 128 + (ch % 64)>>

\* the token type of a byte that is a token by itself, "" for any other
SingleCharType(ch) ==
    CASE ch = ChAssign -> ASSIGN
      [] ch = ChColon -> COLON
      [] ch = ChComma -> COMMA
      [] ch = ChSemicolon -> SEMICOLON
      [] ch = ChLParen -> LPAREN
      [] ch = ChRParen -> RPAREN
      [] ch = ChLBrace -> LBRACE
      [] ch = ChRBrace -> RBRACE
      [] ch = ChLBracket -> LBRACKET
      [] ch = ChRBracket -> RBRACKET
      [] ch = ChDollar -> DOLLAR
      [] ch = ChBang -> BANG
      [] OTHER -> ""

\* NextToken drops the readChar that follows a one-byte token (line 84)
NextTokenNoAdvance(l0) ==
    LET l == skipWhitespace(l0)
    IN  IF l.ch = ChQuote
        THEN LET r == readString(l) IN [tok |-> Token(STRINGTOK, r.lit), l |-> r.l]
        ELSE IF l.ch = ChNul
        THEN [tok |-> Token(EOF, <<>>), l |-> l]
        ELSE IF SingleCharType(l.ch) # ""
        THEN [tok |-> Token(SingleCharType(l.ch), ByteString(l.ch)), l |-> l]
        ELSE IF isLetter(l.ch)
        THEN LET r == readIdentifier(l) IN [tok |-> Token(IDENT, r.lit), l |-> r.l]
        ELSE IF isDigit(l.ch)
        THEN LET r == readNumber(l) IN [tok |-> Token(INT, r.lit), l |-> r.l]
        ELSE [tok |-> Token(ILLEGAL, ByteString(l.ch)), l |-> l]

\* NextToken returns the next token and the lexer after it
NextToken(l0) ==
    LET l == skipWhitespace(l0)
    IN  IF l.ch = ChQuote
        THEN LET r == readString(l) IN [tok |-> Token(STRINGTOK, r.lit), l |-> r.l]
        ELSE IF l.ch = ChNul
        THEN [tok |-> Token(EOF, <<>>), l |-> readChar(l)]
        ELSE IF SingleCharType(l.ch) # ""
        THEN [tok |-> Token(SingleCharType(l.ch), ByteString(l.ch)), l |-> readChar(l)]
        ELSE IF isLetter(l.ch)
        THEN LET r == readIdentifier(l) IN [tok |-> Token(IDENT, r.lit), l |-> r.l]
        ELSE IF isDigit(l.ch)
        THEN LET r == readNumber(l) IN [tok |-> Token(INT, r.lit), l |-> r.l]
        ELSE [tok |-> Token(ILLEGAL, ByteString(l.ch)), l |-> readChar(l)]

(***************************************************************************)
(* Go strings the parser compares token literals with or stores, as bytes. *)
(***************************************************************************)
Str ==
    [query |-> <<113, 117, 101, 114, 121>>,
     mutation |-> <<109, 117, 116, 97, 116, 105, 111, 110>>,
     subscription |-> <<115, 117, 98, 115, 99, 114, 105, 112, 116, 105, 111, 110>>,
     type |-> <<116, 121, 112, 101>>,
     true |-> <<116, 114, 117, 101>>,
     false |-> <<102, 97, 108, 115, 101>>,
     expectedObjectKey |-> <<101, 120, 112, 101, 99, 116, 101, 100, 32, 111, 98, 106, 101, 99, 116, 32, 107, 101, 121>>,
     expectedColon |-> <<101, 120, 112, 101, 99, 116, 101, 100, 32, 99, 111, 108, 111, 110, 32, 105, 110, 32, 111, 98, 106, 101, 99, 116>>]

(***************************************************************************)
(* ast: the nodes the parser builds.  A nil pointer, a nil interface and   *)
(* a nil slice element are Nil; a node reached through a non-nil pointer   *)
(* is a record with isNil = FALSE.  A nil slice is the empty sequence.     *)
(***************************************************************************)
Nil == [isNil |-> TRUE]

Document(definitions) == [Definitions |-> definitions]

OperationDefinition(operation, name, variableDefinitions, selectionSet) ==
    [isNil |-> FALSE, node |-> "OperationDefinition", Operation |-> operation,
     Name |-> name, VariableDefinitions |-> variableDefinitions,
     SelectionSet |-> selectionSet]

VariableDefinition(variable, type) == [Variable |-> variable, Type |-> type]

Type(name, nonNull, isList, elem) ==
    [isNil |-> FALSE, Name |-> name, NonNull |-> nonNull, IsList |-> isList,
     Elem |-> elem]

\* the zero ast.Type, the Type of a VariableDefinition that got none
ZeroType == Type(<<>>, FALSE, FALSE, Nil)

SelectionSet(selections) == [isNil |-> FALSE, Selections |-> selections]

Field(name, arguments, selectionSet) ==
    [isNil |-> FALSE, Name |-> name, Arguments |-> arguments,
     SelectionSet |-> selectionSet]

Argument(name, value) == [Name |-> name, Value |-> value]

\* a Go map with no entry
EmptyMap == [k \in {} |-> Nil]

\* m[key] = value of Go
MapPut(m, key, value) ==
    [k \in DOMAIN m \cup {key} |-> IF k = key THEN value ELSE m[k]]

Value(kind, literal) ==
    [isNil |-> FALSE, Kind |-> kind, Literal |-> literal,
     ObjectFields |-> EmptyMap, List |-> <<>>]

TypeDefinition(name, fields) ==
    [isNil |-> FALSE, node |-> "TypeDefinition", Name |-> name, Fields |-> fields]

\* a Go interface value (ast.Selection) holding a *ast.Field: the interface
\* is nil only when it holds no dynamic type, whatever the pointer in it is
Selection(field) == [dynType |-> "*ast.Field", ptr |-> field]

\* sel != nil on an interface value
InterfaceNotNil(sel) == sel.dynType # ""

(***************************************************************************)
(* parser.Parser: the token cursor.  A cursor is the parser's lexer, its   *)
(* curToken and peekToken, and the number of nextToken calls made.         *)
(***************************************************************************)

\* nextToken advances the parser to the next token
nextToken(c) ==
    LET r == NextToken(c.l)
    IN  [l |-> r.l, cur |-> c.peek, peek |-> r.tok, n |-> c.n + 1]

\* New creates a Parser over the lexer: two nextToken calls fill cur and peek
ParserNew(l) ==
    nextToken(nextToken([l |-> l, cur |-> ZeroToken, peek |-> ZeroToken, n |-> 0]))

\* if p.curToken.Type == token.COMMA { p.nextToken() }
SkipComma(c) == IF c.cur.Type = COMMA THEN nextToken(c) ELSE c

\* if p.curToken.Type == token.BANG { p.nextToken() }
SkipBang(c) == IF c.cur.Type = BANG THEN nextToken(c) ELSE c

\* p.curToken.Literal == "query" || ... "mutation" || ... "subscription"
IsOperationKeyword(literal) ==
    literal \in {Str.query, Str.mutation, Str.subscription}

\* parseType as it would be if the '!' after a list marked its element
RECURSIVE parseTypeBangOnElem(_)
parseTypeBangOnElem(c) ==
    IF c.cur.Type = LBRACKET
    THEN LET inner == parseTypeBangOnElem(nextToken(c))
             c2 == nextToken(inner.c)
         IN  [c |-> SkipBang(c2),
              t |-> Type(<<>>, FALSE, TRUE,
                         IF inner.t.isNil \/ c2.cur.Type # BANG THEN inner.t
                         ELSE [inner.t EXCEPT !.NonNull = TRUE])]
    ELSE IF c.cur.Type = IDENT
    THEN LET c1 == nextToken(c)
         IN  [c |-> SkipBang(c1),
              t |-> Type(c.cur.Literal, c1.cur.Type = BANG, FALSE, Nil)]
    ELSE [c |-> c, t |-> Nil]

\* parseType parses a GraphQL type; the result is the cursor after it and the
\* *ast.Type (Nil when the current token starts no type)
RECURSIVE parseType(_)
parseType(c) ==
    IF c.cur.Type = LBRACKET
    THEN LET inner == parseType(nextToken(c))       \* skip '[', parse the element
             c2 == nextToken(inner.c)               \* skip ']' (whatever it is)
         IN  [c |-> SkipBang(c2),
              t |-> Type(<<>>, c2.cur.Type = BANG, TRUE, inner.t)]
    ELSE IF c.cur.Type = IDENT
    THEN LET c1 == nextToken(c)
         IN  [c |-> SkipBang(c1),
              t |-> Type(c.cur.Literal, c1.cur.Type = BANG, FALSE, Nil)]
    ELSE [c |-> c, t |-> Nil]

\* skipTypeAnnotation skips a type annotation (: Type)
skipTypeAnnotation(c) ==
    IF c.cur.Type # COLON THEN c
    ELSE LET c1 == nextToken(c)                     \* skip the colon
         IN  IF c1.cur.Type = LBRACKET
             THEN LET c2 == nextToken(c1)           \* consume '['
                      c3 == IF c2.cur.Type = IDENT THEN SkipBang(nextToken(c2)) ELSE c2
                      c4 == IF c3.cur.Type = RBRACKET THEN nextToken(c3) ELSE c3
                  IN  SkipBang(c4)
             ELSE SkipBang(IF c1.cur.Type = IDENT THEN nextToken(c1) ELSE c1)

\* maxIterations of skipTypeDefinition
maxIterations == 10000

(***************************************************************************)
(* Go values (interface{}) that resolvers return and the executor builds.  *)
(***************************************************************************)
\* the nil interface value
GoNil == [kind |-> "nil"]
GoString(s) == [kind |-> "string", s |-> s]
GoInt(i) == [kind |-> "int", i |-> i]
GoBool(b) == [kind |-> "bool", b |-> b]
\* map[string]interface{}
GoMap(m) == [kind |-> "map", m |-> m]
\* a slice; an element GoNil is a nil interface element of a []interface{}
GoSlice(elems) == [kind |-> "slice", elems |-> elems]
\* a struct value: its fields in declaration order
GoStruct(fields) == [kind |-> "struct", fields |-> fields]
\* reflect.StructField with the value of the field: tag is the `json:"..."`
\* tag (hasTag FALSE when the field has none)
StructField(name, hasTag, tag, value) ==
    [Name |-> name, hasTag |-> hasTag, tag |-> tag, value |-> value]
\* a non-nil pointer and a typed nil pointer
GoPtr(elem) == [kind |-> "ptr", isNil |-> FALSE, elem |-> elem]
GoNilPtr == [kind |-> "ptr", isNil |-> TRUE, elem |-> GoNil]
\* a channel value: the channel it refers to and the direction of its type
\* ("bidi" chan interface{}, "recv" <-chan interface{}, "send" chan<- interface{})
GoChan(id, dir) == [kind |-> "chan", id |-> id, dir |-> dir]

\* fmt.Errorf(format, a); the nil error is Nil
Errorf(format, a) == [isNil |-> FALSE, format |-> format, a |-> a]

\* the key "data" of the response map
DataKey == <<100, 97, 116, 97>>

\* the largest int (64 bits) in decimal: "9223372036854775807"
MaxIntDigits == <<57, 50, 50, 51, 51, 55, 50, 48, 51, 54, 56, 53, 52, 55, 55, 53, 56, 48, 55>>

\* the number a run of decimal digits denotes
RECURSIVE DecimalValue(_)
DecimalValue(s) ==
    IF s = <<>> THEN 0
    ELSE DecimalValue(SubSeq(s, 1, Len(s) - 1)) * 10 + (s[Len(s)] - 48)

\* s without its leading '0' bytes
RECURSIVE StripZeros(_)
StripZeros(s) == IF s # <<>> /\ s[1] = 48 THEN StripZeros(Tail(s)) ELSE s

\* a run of digits of the same length as MaxIntDigits denotes more than it
DigitsExceedMax(s) ==
    \E i \in 1..Len(s) :
        /\ s[i] > MaxIntDigits[i]
        /\ \A j \in 1..(i - 1) : s[j] = MaxIntDigits[j]

\* strconv.Atoi: an optional sign and decimal digits, within the int range
Atoi(s) ==
    LET signed == s # <<>> /\ s[1] \in {43, 45}
        digits == IF signed THEN Tail(s) ELSE s
        sig == StripZeros(digits)
    IN  IF digits = <<>> \/ \E i \in 1..Len(digits) : ~isDigit(digits[i])
        THEN [ok |-> FALSE, i |-> 0]
        ELSE IF Len(sig) > Len(MaxIntDigits)
                \/ (Len(sig) = Len(MaxIntDigits) /\ DigitsExceedMax(sig))
        THEN [ok |-> FALSE, i |-> 0]
        ELSE [ok |-> TRUE,
              i |-> IF signed /\ s[1] = 45 THEN 0 - DecimalValue(sig)
                    ELSE DecimalValue(sig)]

\* the lower-case form of an ASCII byte, as strings.EqualFold folds it
ToLower(ch) == IF 65 <= ch /\ ch <= 90 THEN ch + 32 ELSE ch

\* strings.EqualFold on ASCII strings
EqualFold(s, t) ==
    /\ Len(s) = Len(t)
    /\ \A i \in 1..Len(s) : ToLower(s[i]) = ToLower(t[i])

\* strings.Split(tag, ",")[0]
RECURSIVE TagName(_)
TagName(tag) ==
    IF tag = <<>> \/ tag[1] = ChComma THEN <<>>
    ELSE <<tag[1]>> \o TagName(Tail(tag))

\* a struct field is exported when its name starts with an upper-case letter
IsExported(name) == name # <<>> /\ 65 <= name[1] /\ name[1] <= 90

(***************************************************************************)
(* executor: argument materialization.  A result with panic = TRUE is a    *)
(* run-time panic (nil pointer dereference) in the function.               *)
(***************************************************************************)
\* buildValue as it would be without the case "Variable": a variable is its
\* name, whatever the bindings are
RECURSIVE buildValueNoVariable(_, _)
buildValueNoVariable(val, variables) ==
    IF val.isNil THEN [panic |-> TRUE, v |-> GoNil]
    ELSE CASE val.Kind = "Int" ->
                  [panic |-> FALSE, v |-> GoInt(Atoi(val.Literal).i)]
           [] val.Kind = "Boolean" ->
                  [panic |-> FALSE, v |-> GoBool(val.Literal = Str.true)]
           [] val.Kind = "Object" ->
                  LET sub == [k \in DOMAIN val.ObjectFields |->
                                 buildValueNoVariable(val.ObjectFields[k], variables)]
                  IN  [panic |-> \E k \in DOMAIN sub : sub[k].panic,
                       v |-> GoMap([k \in DOMAIN sub |-> sub[k].v])]
           [] val.Kind = "Array" ->
                  LET sub == [i \in 1..Len(val.List) |->
                                 buildValueNoVariable(val.List[i], variables)]
                  IN  [panic |-> \E i \in DOMAIN sub : sub[i].panic,
                       v |-> GoSlice([i \in DOMAIN sub |-> sub[i].v])]
           [] OTHER ->
                  [panic |-> FALSE, v |-> GoString(val.Literal)]

\* buildValue converts an AST Value to a Go value
RECURSIVE buildValue(_, _)
buildValue(val, variables) ==
    IF val.isNil THEN [panic |-> TRUE, v |-> GoNil]     \* val.Kind on a nil *ast.Value
    ELSE CASE val.Kind = "Variable" ->
                  [panic |-> FALSE,
                   v |-> IF val.Literal \in DOMAIN variables
                         THEN variables[val.Literal] ELSE GoNil]
           [] val.Kind = "Int" ->
                  [panic |-> FALSE, v |-> GoInt(Atoi(val.Literal).i)]
           [] val.Kind = "String" ->
                  [panic |-> FALSE, v |-> GoString(val.Literal)]
           [] val.Kind = "Boolean" ->
                  [panic |-> FALSE, v |-> GoBool(val.Literal = Str.true)]
           [] val.Kind = "Object" ->
                  LET sub == [k \in DOMAIN val.ObjectFields |->
                                 buildValue(val.ObjectFields[k], variables)]
                  IN  [panic |-> \E k \in DOMAIN sub : sub[k].panic,
                       v |-> GoMap([k \in DOMAIN sub |-> sub[k].v])]
           [] val.Kind = "Array" ->
                  LET sub == [i \in 1..Len(val.List) |->
                                 buildValue(val.List[i], variables)]
                  IN  [panic |-> \E i \in DOMAIN sub : sub[i].panic,
                       v |-> GoSlice([i \in DOMAIN sub |-> sub[i].v])]
           [] OTHER ->
                  [panic |-> FALSE, v |-> GoString(val.Literal)]

\* the loop of buildArgs: args[arg.Name] = buildValue(arg.Value, variables)
RECURSIVE buildArgsLoop(_, _, _)
buildArgsLoop(arguments, variables, args) ==
    IF arguments = <<>> THEN [panic |-> FALSE, args |-> args]
    ELSE LET arg == Head(arguments)
             v == buildValue(arg.Value, variables)
         IN  IF v.panic THEN [panic |-> TRUE, args |-> args]
             ELSE buildArgsLoop(Tail(arguments), variables,
                                MapPut(args, arg.Name, v.v))

\* buildArgs constructs a map of argument names to values
buildArgs(field, variables) == buildArgsLoop(field.Arguments, variables, EmptyMap)

(***************************************************************************)
(* executor.Executor.  The functions below take the executor e (its three  *)
(* resolver tables) and thread log, the history of the resolver calls made *)
(* so far.  A result is what the function returned (res, err) or a panic.  *)
(***************************************************************************)
\* a ResolverFunc: called with any source and args it returns (res, err)
ResolverFunc(id, res, err) == [id |-> id, res |-> res, err |-> err]

\* history: one call of a resolver, the table it was looked up in, the field,
\* the source and args it was given, and what it returned
Invocation(table, name, resolver, source, args) ==
    [table |-> table, name |-> name, resolver |-> resolver.id,
     res |-> resolver.res, err |-> resolver.err,
     source |-> source, args |-> args]

Returned(res, err, log) == [panic |-> FALSE, res |-> res, err |-> err, log |-> log]
Panicked(log) == [panic |-> TRUE, res |-> GoNil, err |-> Nil, log |-> log]

\* args := buildArgs(field, variables); return resolver(source, args)
CallResolver(table, resolver, source, field, variables, log) ==
    LET a == buildArgs(field, variables)
    IN  IF a.panic THEN Panicked(log)
        ELSE Returned(resolver.res, resolver.err,
                      Append(log, Invocation(table, field.Name, resolver, source, a.args)))

\* the loop of reflectResolve over the fields of the struct, from field i
RECURSIVE reflectResolveLoop(_, _, _, _)
reflectResolveLoop(fields, i, field, log) ==
    IF i > Len(fields)
    THEN Returned(GoNil, Errorf("no resolver found for field %s via reflection", field.Name), log)
    ELSE LET sf == fields[i]
         IN  IF \/ EqualFold(sf.Name, field.Name)
                \/ sf.hasTag /\ EqualFold(TagName(sf.tag), field.Name)
             THEN \* val.Field(i).Interface() panics on an unexported field
                  IF IsExported(sf.Name) THEN Returned(sf.value, Nil, log)
                  ELSE Panicked(log)
             ELSE reflectResolveLoop(fields, i + 1, field, log)

\* reflectResolve uses reflection to find a field value on a source struct
reflectResolve(source, field, log) ==
    LET val == IF source.kind = "ptr" /\ ~source.isNil THEN source.elem ELSE source
    IN  IF source.kind = "ptr" /\ source.isNil
        THEN Returned(GoNil, Errorf("source is nil", <<>>), log)
        ELSE IF val.kind # "struct"
        THEN Returned(GoNil, Errorf("source is not a struct", <<>>), log)
        ELSE IF field.isNil THEN Panicked(log)          \* field.Name on a nil *ast.Field
        ELSE reflectResolveLoop(val.fields, 1, field, log)

\* resolveField looks up and executes the appropriate resolver for a field
resolveField(e, source, field, variables, log) ==
    IF source.kind = "nil"
    THEN IF field.isNil THEN Panicked(log)              \* field.Name on a nil *ast.Field
         ELSE IF field.Name \in DOMAIN e.queryResolvers
         THEN CallResolver("query", e.queryResolvers[field.Name],
                           source, field, variables, log)
         ELSE IF field.Name \in DOMAIN e.mutationResolvers
         THEN CallResolver("mutation", e.mutationResolvers[field.Name],
                           source, field, variables, log)
         ELSE Returned(GoNil, Errorf("no resolver found for field %s", field.Name), log)
    ELSE reflectResolve(source, field, log)

RECURSIVE executeSelections(_, _, _, _, _, _)
RECURSIVE executeResolved(_, _, _, _, _, _)
RECURSIVE executeNested(_, _, _, _, _, _)
RECURSIVE resolveSlice(_, _, _, _, _, _)
RECURSIVE resolveSliceItem(_, _, _, _, _, _)
RECURSIVE executeSelectionSet(_, _, _, _, _)
RECURSIVE resolveNestedSelection(_, _, _, _, _)

\* executeSelectionSet traverses the selection set and resolves each field
executeSelectionSet(e, source, ss, variables, log) ==
    IF ss.isNil THEN Panicked(log)                      \* ss.Selections on a nil *ast.SelectionSet
    ELSE executeSelections(e, source, ss.Selections, variables, EmptyMap, log)

\* the loop of executeSelectionSet over the selections left, result so far:
\* the type assertion and the call of resolveField
executeSelections(e, source, selections, variables, result, log) ==
    IF selections = <<>> THEN Returned(GoMap(result), Nil, log)
    ELSE IF Head(selections).dynType # "*ast.Field"     \* !ok: continue
    THEN executeSelections(e, source, Tail(selections), variables, result, log)
    ELSE executeResolved(e, source, selections, variables, result,
             resolveField(e, source, Head(selections).ptr, variables, log))

\* the iteration from the return r of resolveField on
executeResolved(e, source, selections, variables, result, r) ==
    IF r.panic THEN Panicked(r.log)
    ELSE IF ~r.err.isNil THEN Returned(GoNil, r.err, r.log)
    ELSE IF ~Head(selections).ptr.SelectionSet.isNil
    THEN executeNested(e, source, selections, variables, result,
             resolveNestedSelection(e, r.res, Head(selections).ptr.SelectionSet,
                                    variables, r.log))
    ELSE executeSelections(e, source, Tail(selections), variables,
                           MapPut(result, Head(selections).ptr.Name, r.res), r.log)

\* the iteration from the return n of resolveNestedSelection on
executeNested(e, source, selections, variables, result, n) ==
    IF n.panic THEN Panicked(n.log)
    ELSE IF ~n.err.isNil THEN Returned(GoNil, n.err, n.log)
    ELSE executeSelections(e, source, Tail(selections), variables,
                           MapPut(result, Head(selections).ptr.Name, n.res), n.log)

\* resolveNestedSelection handles nested selection sets for objects and slices
resolveNestedSelection(e, res, ss, variables, log) ==
    CASE res.kind = "ptr" ->
             IF res.isNil THEN Returned(res, Nil, log)
             ELSE IF res.elem.kind = "struct"
             THEN executeSelectionSet(e, res, ss, variables, log)
             ELSE Returned(res, Nil, log)
      [] res.kind = "struct" -> executeSelectionSet(e, res, ss, variables, log)
      [] res.kind = "slice" -> resolveSlice(e, res.elems, ss, variables, <<>>, log)
      [] OTHER -> Returned(res, Nil, log)

\* the loop of resolveNestedSelection over the elements left of a slice
resolveSlice(e, elems, ss, variables, arr, log) ==
    IF elems = <<>> THEN Returned(GoSlice(arr), Nil, log)
    ELSE resolveSliceItem(e, elems, ss, variables, arr,
             executeSelectionSet(e, Head(elems), ss, variables, log))

\* the iteration from the return sub of executeSelectionSet on
resolveSliceItem(e, elems, ss, variables, arr, sub) ==
    IF sub.panic THEN Panicked(sub.log)
    ELSE IF ~sub.err.isNil THEN Returned(GoNil, sub.err, sub.log)
    ELSE resolveSlice(e, Tail(elems), ss, variables, Append(arr, sub.res), sub.log)

\* what Execute hands back: the response map and the error, or a panic
Response(response, err, log) ==
    [panic |-> FALSE, response |-> response, err |-> err, log |-> log]

\* doc.Definitions[0].(*ast.OperationDefinition) succeeds
IsOperationDefinition(def) == ~def.isNil /\ def.node = "OperationDefinition"

\* Execute from the return d of executeSelectionSet on
DataResponse(d) ==
    IF d.panic THEN [panic |-> TRUE, response |-> EmptyMap, err |-> Nil, log |-> d.log]
    ELSE IF ~d.err.isNil THEN Response(EmptyMap, d.err, d.log)
    ELSE Response(MapPut(EmptyMap, DataKey, d.res), Nil, d.log)

\* Execute from the operation on: executeSelectionSet against a nil source,
\* and the result wrapped under "data"
ExecuteOperation(e, op, variables) ==
    DataResponse(executeSelectionSet(e, GoNil, op.SelectionSet, variables, <<>>))

\* Execute as it would be if an empty document were an empty success
ExecuteEmptyOk(e, doc, variables) ==
    IF Len(doc.Definitions) = 0
    THEN Response(MapPut(EmptyMap, DataKey, GoMap(EmptyMap)), Nil, <<>>)
    ELSE IF ~IsOperationDefinition(doc.Definitions[1])
    THEN Response(EmptyMap, Errorf("unsupported definition type", <<>>), <<>>)
    ELSE ExecuteOperation(e, doc.Definitions[1], variables)

\* Execute as it would be if it ran the first operation of the document
ExecuteFirstOperation(e, doc, variables) ==
    IF Len(doc.Definitions) = 0
    THEN Response(EmptyMap, Errorf("no definitions found", <<>>), <<>>)
    ELSE IF SelectSeq(doc.Definitions, IsOperationDefinition) = <<>>
    THEN Response(EmptyMap, Errorf("unsupported definition type", <<>>), <<>>)
    ELSE ExecuteOperation(e, Head(SelectSeq(doc.Definitions, IsOperationDefinition)),
                          variables)

\* the response with data stored before the error is looked at
DataFirstResponse(d) ==
    [panic |-> d.panic, response |-> MapPut(EmptyMap, DataKey, d.res),
     err |-> d.err, log |-> d.log]

\* Execute as it would be if it stored data before looking at the error
ExecuteDataFirst(e, doc, variables) ==
    IF Len(doc.Definitions) = 0
    THEN Response(EmptyMap, Errorf("no definitions found", <<>>), <<>>)
    ELSE IF ~IsOperationDefinition(doc.Definitions[1])
    THEN Response(EmptyMap, Errorf("unsupported definition type", <<>>), <<>>)
    ELSE DataFirstResponse(executeSelectionSet(e, GoNil,
             doc.Definitions[1].SelectionSet, variables, <<>>))

\* Execute processes a parsed GraphQL document and returns the result
Execute(e, doc, variables) ==
    IF Len(doc.Definitions) = 0
    THEN Response(EmptyMap, Errorf("no definitions found", <<>>), <<>>)
    ELSE IF ~IsOperationDefinition(doc.Definitions[1])
    THEN Response(EmptyMap, Errorf("unsupported definition type", <<>>), <<>>)
    ELSE ExecuteOperation(e, doc.Definitions[1], variables)

\* the nil channel
NilChan == GoChan(0, "recv")

\* what ExecuteSubscription hands back: the channel and the error, or a panic
Subscribed(ch, err, log) == [panic |-> FALSE, ch |-> ch, err |-> err, log |-> log]

\* ExecuteSubscription from the return r of the resolver on, as it would be
\* if it handed out a channel of its own
SubscriptionOwnChannel(field, r) ==
    IF r.panic THEN [panic |-> TRUE, ch |-> NilChan, err |-> Nil, log |-> r.log]
    ELSE IF ~r.err.isNil THEN Subscribed(NilChan, r.err, r.log)
    ELSE IF r.res.kind = "chan" /\ r.res.dir \in {"recv", "bidi"}
    THEN Subscribed(GoChan(r.res.id + 1, "recv"), Nil, r.log)
    ELSE Subscribed(NilChan,
             Errorf("subscription resolver for field %s did not return a channel",
                    field.Name), r.log)

\* ExecuteSubscription from the return r of the resolver on: the type
\* assertions on res
SubscriptionChannel(field, r) ==
    IF r.panic THEN [panic |-> TRUE, ch |-> NilChan, err |-> Nil, log |-> r.log]
    ELSE IF ~r.err.isNil THEN Subscribed(NilChan, r.err, r.log)
    ELSE IF r.res.kind = "chan" /\ r.res.dir = "recv"   \* res.(<-chan interface{})
    THEN Subscribed(r.res, Nil, r.log)
    ELSE IF r.res.kind = "chan" /\ r.res.dir = "bidi"   \* res.(chan interface{})
    THEN Subscribed(GoChan(r.res.id, "recv"), Nil, r.log)
    ELSE Subscribed(NilChan,
             Errorf("subscription resolver for field %s did not return a channel",
                    field.Name), r.log)

\* ExecuteSubscription as it would be if it fell back on the query table
ExecuteSubscriptionAnyTable(e, field, variables) ==
    IF field.isNil THEN [panic |-> TRUE, ch |-> NilChan, err |-> Nil, log |-> <<>>]
    ELSE IF field.Name \in DOMAIN e.subscriptionResolvers
    THEN SubscriptionChannel(field,
             CallResolver("subscription", e.subscriptionResolvers[field.Name],
                          GoNil, field, variables, <<>>))
    ELSE IF field.Name \in DOMAIN e.queryResolvers
    THEN SubscriptionChannel(field,
             CallResolver("subscription", e.queryResolvers[field.Name],
                          GoNil, field, variables, <<>>))
    ELSE Subscribed(NilChan,
             Errorf("no subscription resolver found for field %s", field.Name), <<>>)

\* ExecuteSubscription as it would be if it handed out a channel of its own
ExecuteSubscriptionOwnChannel(e, field, variables) ==
    IF field.isNil THEN [panic |-> TRUE, ch |-> NilChan, err |-> Nil, log |-> <<>>]
    ELSE IF field.Name \in DOMAIN e.subscriptionResolvers
    THEN SubscriptionOwnChannel(field,
             CallResolver("subscription", e.subscriptionResolvers[field.Name],
                          GoNil, field, variables, <<>>))
    ELSE Subscribed(NilChan,
             Errorf("no subscription resolver found for field %s", field.Name), <<>>)

\* ExecuteSubscription executes a subscription and returns a channel of events
ExecuteSubscription(e, field, variables) ==
    IF field.isNil                                      \* field.Name on a nil *ast.Field
    THEN [panic |-> TRUE, ch |-> NilChan, err |-> Nil, log |-> <<>>]
    ELSE IF field.Name \in DOMAIN e.subscriptionResolvers
    THEN SubscriptionChannel(field,
             CallResolver("subscription", e.subscriptionResolvers[field.Name],
                          GoNil, field, variables, <<>>))
    ELSE Subscribed(NilChan,
             Errorf("no subscription resolver found for field %s", field.Name), <<>>)

(***************************************************************************)
(* State.                                                                  *)
(***************************************************************************)
VARIABLES
    lex,        \* the Lexer: the one under test (LexSpec), the parser's p.l
    toks,       \* the tokens NextToken has returned to its caller (LexSpec)
    curToken,   \* Parser.curToken
    peekToken,  \* Parser.peekToken
    ntok,       \* the number of nextToken calls the parser has made
    stack,      \* the call stack of the parser: one frame per active call
    ret,        \* the value the last returned parser function returned
    doc,        \* the Document ParseDocument builds and returns
    phase,      \* "idle", "parsing", "done" (ParseDocument has returned),
                \* "oom" (the Go runtime has run out of memory)
    mark,       \* history: the parser's stack, ntok and doc when it last
                \* stood at the head of a loop
    queryResolvers,         \* Executor.queryResolvers
    mutationResolvers,      \* Executor.mutationResolvers
    subscriptionResolvers,  \* Executor.subscriptionResolvers
    call,       \* the last call of Execute or ExecuteSubscription: what it
                \* was given, what it returned, the resolver calls it made
    chan,       \* the channel the subscription resolver made: its buffer,
                \* its capacity, whether it is closed (id 0: none made)
    sent,       \* history: the events sent on the channel
    received,   \* the events the caller has received from its subCh
    completed,  \* the caller has seen its subCh closed
    http,       \* the request the handler GraphQL is serving: its state,
                \* its body, the variables decoded, the status and result
                \* written
    accesses,   \* per goroutine, the access to a resolver table it is in
                \* the middle of (a map assignment or a map lookup)
    fatal       \* the Go runtime has thrown "concurrent map ..." (the
                \* process is gone)

lexVars == <<lex, toks>>
parseVars == <<curToken, peekToken, ntok, stack, ret, doc, phase, mark>>
raceVars == <<accesses, fatal>>
execVars == <<queryResolvers, mutationResolvers, subscriptionResolvers, call,
              chan, sent, received, completed, http, accesses, fatal>>
vars == <<lex, toks, curToken, peekToken, ntok, stack, ret, doc, phase, mark,
          queryResolvers, mutationResolvers, subscriptionResolvers, call,
          chan, sent, received, completed, http, accesses, fatal>>

\* the goroutines of the program
Goroutines == 1..MaxGoroutines

\* a goroutine that is not inside a table access
NoAccess == [kind |-> "none"]

\* executor.New(): the tables are empty; nothing has been called, no channel
\* has been made, no request has come
ExecutorIdle ==
    /\ queryResolvers = EmptyMap
    /\ mutationResolvers = EmptyMap
    /\ subscriptionResolvers = EmptyMap
    /\ call = [op |-> "none"]
    /\ chan = [id |-> 0, cap |-> 0, buf |-> <<>>, closed |-> FALSE]
    /\ sent = <<>>
    /\ received = <<>>
    /\ completed = FALSE
    /\ http = [state |-> "idle", status |-> 0, variables |-> EmptyMap,
               result |-> EmptyMap,
               body |-> [json |-> FALSE, query |-> <<>>, hasVariables |-> FALSE,
                         variables |-> EmptyMap]]
    /\ accesses = [g \in Goroutines |-> NoAccess]
    /\ fatal = FALSE


\* no parser exists
ParserIdle ==
    /\ curToken = ZeroToken
    /\ peekToken = ZeroToken
    /\ ntok = 0
    /\ stack = <<>>
    /\ ret = Nil
    /\ doc = Document(<<>>)
    /\ phase = "idle"
    /\ mark = <<>>

\* number of NextToken calls made
calls == Len(toks)

\* the token the last NextToken call returned
lastTok == IF toks = <<>> THEN ZeroToken ELSE toks[Len(toks)]

(***************************************************************************)
(* LexSpec: a caller that makes a Lexer over some input and calls          *)
(* NextToken again and again.                                              *)
(***************************************************************************)
\* bytes the inputs of LexSpec are made of: NUL, space, '"', '1', '@', 'a',
\* '{', and 0x80 (no letter, no ASCII)
LexBytes == {ChNul, ChSpace, ChQuote, 49, ChAt, 97, ChLBrace, 128}

RECURSIVE SeqsUpTo(_, _)
SeqsUpTo(S, n) ==
    IF n = 0 THEN {<<>>}
    ELSE LET shorter == SeqsUpTo(S, n - 1)
         IN  shorter \cup {Append(s, x) : s \in {t \in shorter : Len(t) = n - 1}, x \in S}

LexInputs == SeqsUpTo(LexBytes, MaxInputLen)

LexInit ==
    /\ \E input \in LexInputs : lex = LexerNew(input)
    /\ toks = <<>>
    /\ ParserIdle
    /\ ExecutorIdle

CallNextToken ==
    /\ calls < Len(lex.input) + ExtraCalls
    /\ LET r == NextToken(lex)
       IN  /\ lex' = r.l
           /\ toks' = Append(toks, r.tok)
    /\ UNCHANGED <<parseVars, execVars>>

LexNext == CallNextToken

LexSpec == LexInit /\ [][LexNext]_vars

(***************************************************************************)
(* The parser as a machine.  Each function of parser.go is cut at its      *)
(* calls and at its loop heads; a frame holds the function, the place      *)
(* (pc) and the locals.  An action runs one piece: from a place to the     *)
(* next call, loop head or return.                                         *)
(***************************************************************************)
Frame(fn) == [fn |-> fn, pc |-> "start"]

Top == stack[Len(stack)]

At(fn, pc) ==
    /\ phase = "parsing"
    /\ stack # <<>>
    /\ Top.fn = fn
    /\ Top.pc = pc

\* the parser's cursor in the current state
Cursor == [l |-> lex, cur |-> curToken, peek |-> peekToken, n |-> ntok]

SetCursor(c) ==
    /\ lex' = c.l
    /\ curToken' = c.cur
    /\ peekToken' = c.peek
    /\ ntok' = c.n

\* The pieces below compute the parser's next state as a value:
\* [c: the cursor, stack, ret, doc, phase].

\* go on in the same call, at the place and with the locals of frame f
Goto(c, f) ==
    [c |-> c, stack |-> [stack EXCEPT ![Len(stack)] = f], ret |-> Nil,
     doc |-> doc, phase |-> phase]

\* call callee; the caller goes on as frame f when the callee has returned
Call(c, f, callee) ==
    [c |-> c, stack |-> Append([stack EXCEPT ![Len(stack)] = f], callee),
     ret |-> Nil, doc |-> doc, phase |-> phase]

\* return v to the caller
Return(c, v) ==
    [c |-> c, stack |-> SubSeq(stack, 1, Len(stack) - 1), ret |-> v,
     doc |-> doc, phase |-> phase]

\* append fails: the Go runtime has no memory left and aborts the process
OutOfMemory ==
    [c |-> Cursor, stack |-> stack, ret |-> ret, doc |-> doc, phase |-> "oom"]

\* the parser moves to state m
Apply(m) ==
    /\ SetCursor(m.c)
    /\ stack' = m.stack
    /\ ret' = m.ret
    /\ doc' = m.doc
    /\ phase' = m.phase
    /\ mark' = IF Top.pc = "loop" THEN <<stack, ntok, doc>> ELSE mark
    /\ UNCHANGED <<toks, execVars>>

\* ---- ParseDocument (parser.go 32-41) ----
ParseDocument_loop ==
    /\ At("ParseDocument", "loop")
    /\ Apply(
       IF curToken.Type # EOF
       THEN Call(Cursor, [Top EXCEPT !.pc = "got_def"], Frame("parseDefinition"))
       ELSE [c |-> Cursor, stack |-> <<>>, ret |-> Nil, doc |-> doc,
             phase |-> "done"])

ParseDocument_got_def ==
    /\ At("ParseDocument", "got_def")
    /\ Apply(
       [Goto(Cursor, [Top EXCEPT !.pc = "loop"])
          EXCEPT !.doc = IF ret.isNil THEN doc
                         ELSE [doc EXCEPT !.Definitions = Append(@, ret)]])

\* ---- parseDefinition (parser.go 44-62): each return is a tail call ----
parseDefinition_start ==
    /\ At("parseDefinition", "start")
    /\ Apply(
       IF IsOperationKeyword(curToken.Literal) \/ curToken.Type = LBRACE
       THEN Goto(Cursor, Frame("parseOperationDefinition"))
       ELSE IF curToken.Literal = Str.type
       THEN Goto(Cursor, Frame("skipTypeDefinition"))
       ELSE Return(nextToken(Cursor), Nil))

\* ---- parseOperationDefinition (parser.go 65-86) ----
\* lines 82-85: the selection set, if a '{' is next
OperationSelectionSet(c, op) ==
    IF c.cur.Type = LBRACE
    THEN Call(c, [fn |-> "parseOperationDefinition", pc |-> "got_ss", op |-> op],
              Frame("parseSelectionSet"))
    ELSE Return(c, op)

parseOperationDefinition_start ==
    /\ At("parseOperationDefinition", "start")
    /\ Apply(
       LET op == OperationDefinition(<<>>, <<>>, <<>>, Nil)
       IN  IF IsOperationKeyword(curToken.Literal)
           THEN LET c1 == nextToken(Cursor)
                    named == c1.cur.Type = IDENT
                    c2 == IF named THEN nextToken(c1) ELSE c1
                    op1 == [op EXCEPT !.Operation = curToken.Literal,
                                      !.Name = IF named THEN c1.cur.Literal ELSE <<>>]
                IN  IF c2.cur.Type = LPAREN
                    THEN Call(c2, [fn |-> "parseOperationDefinition",
                                   pc |-> "got_vars", op |-> op1],
                              Frame("parseVariableDefinitions"))
                    ELSE OperationSelectionSet(c2, op1)
           ELSE OperationSelectionSet(Cursor, [op EXCEPT !.Operation = Str.query]))

parseOperationDefinition_got_vars ==
    /\ At("parseOperationDefinition", "got_vars")
    /\ Apply(
       OperationSelectionSet(Cursor, [Top.op EXCEPT !.VariableDefinitions = ret]))

parseOperationDefinition_got_ss ==
    /\ At("parseOperationDefinition", "got_ss")
    /\ Apply(
       Return(Cursor, [Top.op EXCEPT !.SelectionSet = ret]))

\* ---- parseVariableDefinitions (parser.go 89-116) ----
parseVariableDefinitions_start ==
    /\ At("parseVariableDefinitions", "start")
    /\ Apply(
       Goto(nextToken(Cursor),                       \* skip '('
            [fn |-> "parseVariableDefinitions", pc |-> "loop", vars |-> <<>>]))

parseVariableDefinitions_loop ==
    /\ At("parseVariableDefinitions", "loop")
    /\ Apply(
       IF curToken.Type # RPAREN /\ curToken.Type # EOF
       THEN Goto(Cursor, [Top EXCEPT !.pc = "body"])
       ELSE Return(nextToken(Cursor), Top.vars))      \* skip ')'

parseVariableDefinitions_body ==
    /\ At("parseVariableDefinitions", "body")
    /\ Apply(
       IF curToken.Type = DOLLAR
       THEN LET c1 == nextToken(Cursor)              \* skip '$'
            IN  IF c1.cur.Type # IDENT
                THEN Return(c1, Top.vars)
                ELSE LET c2 == nextToken(c1)
                         typed == c2.cur.Type = COLON
                         parsed == parseType(nextToken(c2))
                         c3 == IF typed THEN parsed.c ELSE c2
                         type == IF typed /\ ~parsed.t.isNil THEN parsed.t ELSE ZeroType
                         varDef == VariableDefinition(c1.cur.Literal, type)
                     IN  Goto(SkipComma(c3),
                              [Top EXCEPT !.pc = "loop", !.vars = Append(@, varDef)])
       ELSE Goto(SkipComma(Cursor), [Top EXCEPT !.pc = "loop"]))

\* ---- parseSelectionSet (parser.go 119-133) ----
parseSelectionSet_start ==
    /\ At("parseSelectionSet", "start")
    /\ Apply(
       Goto(nextToken(Cursor),                       \* skip '{'
            [fn |-> "parseSelectionSet", pc |-> "loop", ss |-> SelectionSet(<<>>)]))

\* parseSelection (parser.go 136-138) is the call of parseField
parseSelectionSet_loop ==
    /\ At("parseSelectionSet", "loop")
    /\ Apply(
       IF curToken.Type # RBRACE /\ curToken.Type # EOF
       THEN Call(Cursor, [Top EXCEPT !.pc = "got_sel"], Frame("parseField"))
       ELSE Return(nextToken(Cursor), Top.ss))        \* skip '}'

\* parseSelectionSet as it would be if it put each selection in front of the
\* ones before it
parseSelectionSet_got_sel_in_front ==
    /\ At("parseSelectionSet", "got_sel")
    /\ Apply(
       LET sel == Selection(ret)
       IN  IF InterfaceNotNil(sel)
           THEN IF Len(Top.ss.Selections) < MaxSelections
                THEN Goto(SkipComma(Cursor),
                          [Top EXCEPT !.pc = "loop",
                                      !.ss.Selections = <<sel>> \o @])
                ELSE OutOfMemory
           ELSE Goto(SkipComma(Cursor), [Top EXCEPT !.pc = "loop"]))

\* parseSelection returns the *ast.Field as an ast.Selection
parseSelectionSet_got_sel ==
    /\ At("parseSelectionSet", "got_sel")
    /\ Apply(
       LET sel == Selection(ret)
       IN  IF InterfaceNotNil(sel)
           THEN IF Len(Top.ss.Selections) < MaxSelections
                THEN Goto(SkipComma(Cursor),
                          [Top EXCEPT !.pc = "loop",
                                      !.ss.Selections = Append(@, sel)])
                ELSE OutOfMemory
           ELSE Goto(SkipComma(Cursor), [Top EXCEPT !.pc = "loop"]))

\* ---- parseField (parser.go 141-155) ----
\* lines 151-154: the nested selection set, if a '{' is next
FieldSelectionSet(c, field) ==
    IF c.cur.Type = LBRACE
    THEN Call(c, [fn |-> "parseField", pc |-> "got_ss", field |-> field],
              Frame("parseSelectionSet"))
    ELSE Return(c, field)

parseField_start ==
    /\ At("parseField", "start")
    /\ Apply(
       IF curToken.Type # IDENT
       THEN Return(Cursor, Nil)
       ELSE LET field == Field(curToken.Literal, <<>>, Nil)
                c1 == nextToken(Cursor)
            IN  IF c1.cur.Type = LPAREN
                THEN Call(c1, [fn |-> "parseField", pc |-> "got_args", field |-> field],
                          Frame("parseArguments"))
                ELSE FieldSelectionSet(c1, field))

parseField_got_args ==
    /\ At("parseField", "got_args")
    /\ Apply(
       FieldSelectionSet(Cursor, [Top.field EXCEPT !.Arguments = ret]))

parseField_got_ss ==
    /\ At("parseField", "got_ss")
    /\ Apply(
       Return(Cursor, [Top.field EXCEPT !.SelectionSet = ret]))

\* ---- parseArguments (parser.go 158-178) ----
parseArguments_start ==
    /\ At("parseArguments", "start")
    /\ Apply(
       Goto(nextToken(Cursor),                       \* skip '('
            [fn |-> "parseArguments", pc |-> "loop", args |-> <<>>,
             arg |-> Argument(<<>>, Nil)]))

parseArguments_loop ==
    /\ At("parseArguments", "loop")
    /\ Apply(
       IF curToken.Type # RPAREN /\ curToken.Type # EOF
       THEN Goto(Cursor, [Top EXCEPT !.pc = "body", !.arg = Argument(<<>>, Nil)])
       ELSE Return(nextToken(Cursor), Top.args))      \* skip ')'

parseArguments_body ==
    /\ At("parseArguments", "body")
    /\ Apply(
       IF curToken.Type = IDENT
       THEN LET arg == Argument(curToken.Literal, Nil)
                c1 == nextToken(Cursor)
            IN  IF c1.cur.Type = COLON
                THEN Call(nextToken(c1), [Top EXCEPT !.pc = "got_value", !.arg = arg],
                          Frame("parseValue"))
                ELSE Goto(SkipComma(c1),
                          [Top EXCEPT !.pc = "loop", !.args = Append(@, arg)])
       ELSE Goto(SkipComma(Cursor), [Top EXCEPT !.pc = "loop"]))

parseArguments_got_value ==
    /\ At("parseArguments", "got_value")
    /\ Apply(
       Goto(SkipComma(Cursor),
            [Top EXCEPT !.pc = "loop",
                        !.args = Append(@, [Top.arg EXCEPT !.Value = ret]),
                        !.arg = Argument(<<>>, Nil)]))

\* ---- parseValue (parser.go 181-226) ----
\* parseValue as it would be if its default case did not call nextToken
parseValue_start_no_advance ==
    /\ At("parseValue", "start")
    /\ Apply(
       IF curToken.Type = LBRACE
       THEN Goto(Cursor, Frame("parseObject"))
       ELSE IF curToken.Type = LBRACKET
       THEN Goto(Cursor, Frame("parseArray"))
       ELSE LET c1 == nextToken(Cursor)
                lit == curToken.Literal
            IN  CASE curToken.Type = INT -> Return(c1, Value("Int", lit))
                  [] curToken.Type = STRINGTOK -> Return(c1, Value("String", lit))
                  [] curToken.Type = IDENT ->
                       Return(c1, Value(IF lit = Str.true \/ lit = Str.false
                                        THEN "Boolean" ELSE "Enum", lit))
                  [] curToken.Type = DOLLAR ->
                       IF c1.cur.Type = IDENT
                       THEN Return(nextToken(c1), Value("Variable", c1.cur.Literal))
                       ELSE Return(c1, Value("Variable", <<>>))
                  [] OTHER -> Return(Cursor, Value("Illegal", lit)))

parseValue_start ==
    /\ At("parseValue", "start")
    /\ Apply(
       IF curToken.Type = LBRACE
       THEN Goto(Cursor, Frame("parseObject"))       \* return p.parseObject()
       ELSE IF curToken.Type = LBRACKET
       THEN Goto(Cursor, Frame("parseArray"))        \* return p.parseArray()
       ELSE LET c1 == nextToken(Cursor)
                lit == curToken.Literal
            IN  CASE curToken.Type = INT -> Return(c1, Value("Int", lit))
                  [] curToken.Type = STRINGTOK -> Return(c1, Value("String", lit))
                  [] curToken.Type = IDENT ->
                       Return(c1, Value(IF lit = Str.true \/ lit = Str.false
                                        THEN "Boolean" ELSE "Enum", lit))
                  [] curToken.Type = DOLLAR ->
                       IF c1.cur.Type = IDENT
                       THEN Return(nextToken(c1), Value("Variable", c1.cur.Literal))
                       ELSE Return(c1, Value("Variable", <<>>))
                  [] OTHER -> Return(c1, Value("Illegal", lit)))

\* ---- parseObject (parser.go 229-253) ----
parseObject_start ==
    /\ At("parseObject", "start")
    /\ Apply(
       Goto(nextToken(Cursor),                       \* skip '{'
            [fn |-> "parseObject", pc |-> "loop", objFields |-> EmptyMap,
             key |-> <<>>]))

parseObject_loop ==
    /\ At("parseObject", "loop")
    /\ Apply(
       IF curToken.Type # RBRACE /\ curToken.Type # EOF
       THEN Goto(Cursor, [Top EXCEPT !.pc = "body"])
       ELSE Return(nextToken(Cursor),                \* skip '}'
                   [Value("Object", <<>>) EXCEPT !.ObjectFields = Top.objFields]))

parseObject_body ==
    /\ At("parseObject", "body")
    /\ Apply(
       IF curToken.Type # IDENT
       THEN Return(Cursor, Value("Illegal", Str.expectedObjectKey))
       ELSE LET c1 == nextToken(Cursor)
            IN  IF c1.cur.Type # COLON
                THEN Return(c1, Value("Illegal", Str.expectedColon))
                ELSE Call(nextToken(c1),             \* skip colon
                          [Top EXCEPT !.pc = "got_value", !.key = curToken.Literal],
                          Frame("parseValue")))

parseObject_got_value ==
    /\ At("parseObject", "got_value")
    /\ Apply(
       Goto(SkipComma(Cursor),
            [Top EXCEPT !.pc = "loop", !.objFields = MapPut(@, Top.key, ret)]))

\* ---- parseArray (parser.go 256-268) ----
parseArray_start ==
    /\ At("parseArray", "start")
    /\ Apply(
       Goto(nextToken(Cursor),                       \* skip '['
            [fn |-> "parseArray", pc |-> "loop", arr |-> <<>>]))

parseArray_loop ==
    /\ At("parseArray", "loop")
    /\ Apply(
       IF curToken.Type # RBRACKET /\ curToken.Type # EOF
       THEN Call(Cursor, [Top EXCEPT !.pc = "got_value"], Frame("parseValue"))
       ELSE Return(nextToken(Cursor),                \* skip ']'
                   [Value("Array", <<>>) EXCEPT !.List = Top.arr]))

parseArray_got_value ==
    /\ At("parseArray", "got_value")
    /\ Apply(
       Goto(SkipComma(Cursor),
            [Top EXCEPT !.pc = "loop", !.arr = Append(@, ret)]))

\* ---- skipTypeDefinition (parser.go 303-342) ----
skipTypeDefinition_start ==
    /\ At("skipTypeDefinition", "start")
    /\ Apply(
       LET c1 == nextToken(Cursor)                   \* skip "type"
           c2 == nextToken(c1)                       \* move past type name
       IN  IF c1.cur.Type # IDENT
           THEN Return(c1, Nil)
           ELSE IF c2.cur.Type # LBRACE
           THEN Return(c2, Nil)
           ELSE Goto(nextToken(c2),                  \* skip '{'
                     [fn |-> "skipTypeDefinition", pc |-> "loop",
                      typeName |-> c1.cur.Literal, fields |-> <<>>,
                      iterations |-> 0]))

skipTypeDefinition_loop ==
    /\ At("skipTypeDefinition", "loop")
    /\ Apply(
       IF /\ curToken.Type # RBRACE
          /\ curToken.Type # EOF
          /\ Top.iterations + 1 <= maxIterations
       THEN Call(Cursor, [Top EXCEPT !.pc = "got_field", !.iterations = @ + 1],
                 Frame("parseTypeField"))
       ELSE Return(IF curToken.Type = RBRACE THEN nextToken(Cursor) ELSE Cursor,
                   TypeDefinition(Top.typeName, Top.fields)))

skipTypeDefinition_got_field ==
    /\ At("skipTypeDefinition", "got_field")
    /\ Apply(
       IF ~ret.isNil
       THEN Goto(SkipComma(Cursor),
                 [Top EXCEPT !.pc = "loop", !.fields = Append(@, ret)])
       ELSE Goto(SkipComma(nextToken(Cursor)), [Top EXCEPT !.pc = "loop"]))

\* ---- parseTypeField (parser.go 345-364) ----
parseTypeField_start ==
    /\ At("parseTypeField", "start")
    /\ Apply(
       IF curToken.Type # IDENT
       THEN Return(Cursor, Nil)
       ELSE LET field == Field(curToken.Literal, <<>>, Nil)
                c1 == nextToken(Cursor)              \* consume the field name
            IN  IF c1.cur.Type = LPAREN
                THEN Call(c1, [fn |-> "parseTypeField", pc |-> "after_paren",
                               field |-> field],
                          Frame("skipParenBlock"))
                ELSE Return(skipTypeAnnotation(c1), field))

parseTypeField_after_paren ==
    /\ At("parseTypeField", "after_paren")
    /\ Apply(
       Return(skipTypeAnnotation(Cursor), Top.field))

\* ---- skipParenBlock (parser.go 367-381) ----
skipParenBlock_start ==
    /\ At("skipParenBlock", "start")
    /\ Apply(
       IF curToken.Type # LPAREN
       THEN Return(Cursor, Nil)
       ELSE Goto(nextToken(Cursor),                  \* skip the opening '('
                 [fn |-> "skipParenBlock", pc |-> "loop", depth |-> 1]))

skipParenBlock_loop ==
    /\ At("skipParenBlock", "loop")
    /\ Apply(
       IF Top.depth > 0 /\ curToken.Type # EOF
       THEN Goto(Cursor, [Top EXCEPT !.pc = "body"])
       ELSE Return(Cursor, Nil))

skipParenBlock_body ==
    /\ At("skipParenBlock", "body")
    /\ Apply(
       Goto(nextToken(Cursor),
            [Top EXCEPT !.pc = "loop",
                        !.depth = IF curToken.Type = LPAREN THEN @ + 1
                                  ELSE IF curToken.Type = RPAREN THEN @ - 1
                                  ELSE @]))

ParserStep ==
    \/ ParseDocument_loop
    \/ ParseDocument_got_def
    \/ parseDefinition_start
    \/ parseOperationDefinition_start
    \/ parseOperationDefinition_got_vars
    \/ parseOperationDefinition_got_ss
    \/ parseVariableDefinitions_start
    \/ parseVariableDefinitions_loop
    \/ parseVariableDefinitions_body
    \/ parseSelectionSet_start
    \/ parseSelectionSet_loop
    \/ parseSelectionSet_got_sel
    \/ parseField_start
    \/ parseField_got_args
    \/ parseField_got_ss
    \/ parseArguments_start
    \/ parseArguments_loop
    \/ parseArguments_body
    \/ parseArguments_got_value
    \/ parseValue_start
    \/ parseObject_start
    \/ parseObject_loop
    \/ parseObject_body
    \/ parseObject_got_value
    \/ parseArray_start
    \/ parseArray_loop
    \/ parseArray_got_value
    \/ skipTypeDefinition_start
    \/ skipTypeDefinition_loop
    \/ skipTypeDefinition_got_field
    \/ parseTypeField_start
    \/ parseTypeField_after_paren
    \/ skipParenBlock_start
    \/ skipParenBlock_loop
    \/ skipParenBlock_body

(***************************************************************************)
(* ParseSpec: lexer.New, parser.New and ParseDocument on an input string.  *)
(* The inputs are a head that leads the parser into one of its functions,  *)
(* followed by every sequence of up to MaxBodyLen lexemes of that          *)
(* function's alphabet, lexemes separated by one space.                    *)
(***************************************************************************)
RECURSIVE JoinLexemes(_)
JoinLexemes(lexemes) ==
    IF lexemes = <<>> THEN <<>>
    ELSE <<ChSpace>> \o Head(lexemes) \o JoinLexemes(Tail(lexemes))

ParseCases ==
    { \* a document: definitions
      [head |-> <<>>,
       alphabet |-> {<<123>>, <<125>>, <<97>>, <<44>>, <<49>>, <<40>>, <<113, 117, 101, 114, 121>>, <<116, 121, 112, 101>>}],
      \* { f (   an argument list
      [head |-> <<123, 102, 40>>,
       alphabet |-> {<<97>>, <<58>>, <<49>>, <<44>>, <<41>>, <<125>>, <<36>>}],
      \* { f ( a :   a value
      [head |-> <<123, 102, 40, 97, 58>>,
       alphabet |-> {<<123>>, <<125>>, <<91>>, <<93>>, <<97>>, <<58>>, <<49>>, <<44>>}],
      \* { f ( a :   a value: $ v "s" true [ { : @
      [head |-> <<123, 102, 40, 97, 58>>,
       alphabet |-> {<<36>>, <<118>>, <<34, 115, 34>>, <<116, 114, 117, 101>>, <<91>>, <<123>>, <<58>>, <<64>>}],
      \* query (   a variable list
      [head |-> <<113, 117, 101, 114, 121, 40>>,
       alphabet |-> {<<36>>, <<118>>, <<58>>, <<91>>, <<93>>, <<33>>, <<41>>, <<49>>}],
      \* type T {   the fields of a type definition
      [head |-> <<116, 121, 112, 101, 32, 84, 123>>,
       alphabet |-> {<<97>>, <<40>>, <<41>>, <<58>>, <<91>>, <<33>>, <<125>>, <<44>>}] }

ParseInputs ==
    UNION { { c.head \o JoinLexemes(body) : body \in SeqsUpTo(c.alphabet, MaxBodyLen) }
            : c \in ParseCases }

\* l := lexer.New(input); p := parser.New(l); the call of p.ParseDocument()
StartParse(input) ==
    LET c == ParserNew(LexerNew(input))
    IN  /\ lex = c.l
        /\ curToken = c.cur
        /\ peekToken = c.peek
        /\ ntok = c.n
        /\ stack = <<[fn |-> "ParseDocument", pc |-> "loop"]>>
        /\ ret = Nil
        /\ doc = Document(<<>>)
        /\ phase = "parsing"
        /\ mark = <<>>

ParseInit ==
    /\ toks = <<>>
    /\ \E input \in ParseInputs : StartParse(input)
    /\ ExecutorIdle

ParseNext == ParserStep

ParseSpec == ParseInit /\ [][ParseNext]_vars

(***************************************************************************)
(* ExecSpec: a program that makes an Executor, registers resolvers and     *)
(* then calls Execute and ExecuteSubscription.  SubSpec: a program that    *)
(* registers subscription resolvers, calls ExecuteSubscription and         *)
(* receives from the channel it returned while the resolver's side sends   *)
(* on it and closes it.                                                    *)
(***************************************************************************)
\* the Executor in the current state
TheExecutor ==
    [queryResolvers |-> queryResolvers, mutationResolvers |-> mutationResolvers,
     subscriptionResolvers |-> subscriptionResolvers]

\* the number of entries of the three tables
Registered ==
    Cardinality(DOMAIN queryResolvers) + Cardinality(DOMAIN mutationResolvers)
        + Cardinality(DOMAIN subscriptionResolvers)

\* RegisterQueryResolver registers a resolver for a query field
RegisterQueryResolver(field, resolver) ==
    /\ Registered < MaxResolvers \/ field \in DOMAIN queryResolvers
    /\ queryResolvers' = MapPut(queryResolvers, field, resolver)
    /\ UNCHANGED <<mutationResolvers, subscriptionResolvers, call, chan, sent,
                   received, completed, http, lexVars, parseVars, raceVars>>

\* RegisterMutationResolver registers a resolver for a mutation field
RegisterMutationResolver(field, resolver) ==
    /\ Registered < MaxResolvers \/ field \in DOMAIN mutationResolvers
    /\ mutationResolvers' = MapPut(mutationResolvers, field, resolver)
    /\ UNCHANGED <<queryResolvers, subscriptionResolvers, call, chan, sent,
                   received, completed, http, lexVars, parseVars, raceVars>>

\* RegisterSubscriptionResolver registers a resolver for a subscription field
RegisterSubscriptionResolver(field, resolver) ==
    /\ Registered < MaxResolvers \/ field \in DOMAIN subscriptionResolvers
    /\ subscriptionResolvers' = MapPut(subscriptionResolvers, field, resolver)
    /\ UNCHANGED <<queryResolvers, mutationResolvers, call, chan, sent,
                   received, completed, http, lexVars, parseVars, raceVars>>

\* result, err := exec.Execute(d, v)
CallExecute(d, v) ==
    /\ call' = [op |-> "Execute", doc |-> d, variables |-> v,
                out |-> Execute(TheExecutor, d, v)]
    /\ UNCHANGED <<queryResolvers, mutationResolvers, subscriptionResolvers,
                   chan, sent, received, completed, http, lexVars, parseVars, raceVars>>

\* subCh, err := exec.ExecuteSubscription(f, v); a resolver that returns a
\* channel has made it, with capacity cap
CallExecuteSubscription(f, v, cap) ==
    /\ call' = [op |-> "ExecuteSubscription", field |-> f, variables |-> v,
                out |-> ExecuteSubscription(TheExecutor, f, v)]
    /\ IF call'.out.log # <<>> /\ call'.out.log[1].res.kind = "chan"
       THEN /\ chan' = [id |-> call'.out.log[1].res.id, cap |-> cap, buf |-> <<>>,
                        closed |-> FALSE]
            /\ sent' = <<>>
            /\ received' = <<>>
            /\ completed' = FALSE
       ELSE UNCHANGED <<chan, sent, received, completed>>
    /\ UNCHANGED <<queryResolvers, mutationResolvers, subscriptionResolvers,
                   http, lexVars, parseVars, raceVars>>

\* the caller holds the resolver's channel: ExecuteSubscription returned it
CallerHolds ==
    /\ call.op = "ExecuteSubscription"
    /\ ~call.out.panic
    /\ call.out.err.isNil
    /\ chan.id # 0
    /\ call.out.ch.id = chan.id

\* ch <- event on the resolver's side: into the buffer when there is room,
\* else straight to the caller when it is receiving (an unbuffered channel)
Send(event) ==
    /\ chan.id # 0
    /\ ~chan.closed
    /\ Len(sent) < MaxEvents
    /\ sent' = Append(sent, event)
    /\ IF Len(chan.buf) < chan.cap
       THEN /\ chan' = [chan EXCEPT !.buf = Append(@, event)]
            /\ UNCHANGED received
       ELSE /\ chan.buf = <<>>
            /\ CallerHolds
            /\ ~completed
            /\ received' = Append(received, event)
            /\ UNCHANGED chan
    /\ UNCHANGED <<queryResolvers, mutationResolvers, subscriptionResolvers,
                   call, completed, http, lexVars, parseVars, raceVars>>

\* close(ch) on the resolver's side
Close ==
    /\ chan.id # 0
    /\ ~chan.closed
    /\ chan' = [chan EXCEPT !.closed = TRUE]
    /\ UNCHANGED <<queryResolvers, mutationResolvers, subscriptionResolvers,
                   call, sent, received, completed, http, lexVars, parseVars, raceVars>>

\* event, ok := <-subCh on the caller's side: the oldest buffered event, or
\* completion when the channel is closed and empty
Receive ==
    /\ CallerHolds
    /\ ~completed
    /\ chan.buf # <<>> \/ chan.closed
    /\ IF chan.buf # <<>>
       THEN /\ received' = Append(received, Head(chan.buf))
            /\ chan' = [chan EXCEPT !.buf = Tail(@)]
            /\ UNCHANGED completed
       ELSE /\ completed' = TRUE
            /\ UNCHANGED <<chan, received>>
    /\ UNCHANGED <<queryResolvers, mutationResolvers, subscriptionResolvers,
                   call, sent, http, lexVars, parseVars, raceVars>>

\* field and argument names: a, b, n, x, z, in
Names ==
    [a |-> <<97>>, b |-> <<98>>, n |-> <<110>>, x |-> <<120>>, z |-> <<122>>,
     in |-> <<105, 110>>]

\* the value the resolver rStruct returns: &Outer{N: "n1", In: Inner{N: "n2"},
\* hidden: "h"} with json tags n, in on the exported fields
OuterStruct ==
    GoStruct(<<StructField(<<78>>, TRUE, Names.n, GoString(<<110, 49>>)),
               StructField(<<73, 110>>, TRUE, Names.in,
                   GoStruct(<<StructField(<<78>>, TRUE, Names.n,
                                          GoString(<<110, 50>>))>>)),
               StructField(<<104>>, FALSE, <<>>, GoString(<<104>>))>>)

\* resolvers
rX == ResolverFunc("rX", GoString(<<120>>), Nil)
rY == ResolverFunc("rY", GoString(<<121>>), Nil)
rErr == ResolverFunc("rErr", GoNil, Errorf("resolver failed", <<>>))
rStruct == ResolverFunc("rStruct", GoPtr(OuterStruct), Nil)
rBidi == ResolverFunc("rBidi", GoChan(1, "bidi"), Nil)
rRecv == ResolverFunc("rRecv", GoChan(1, "recv"), Nil)
rSend == ResolverFunc("rSend", GoChan(1, "send"), Nil)

QueryResolverPool == {rX, rErr, rStruct}
MutationResolverPool == {rY}
SubscriptionResolverPool == {rBidi, rRecv, rSend, rX}
FieldNames == {Names.a, Names.b}

\* fields: a, b, a(x: 1), a(x: $v), a(x) (an argument without a value, as
\* parseArguments builds it), a { n }, a { z }, a { in { n } }, a { in { z } }
Leaf(name) == Field(name, <<>>, Nil)
Sel(fields) == SelectionSet([i \in 1..Len(fields) |-> Selection(fields[i])])
Fields ==
    [a |-> Leaf(Names.a),
     b |-> Leaf(Names.b),
     aInt |-> Field(Names.a, <<Argument(Names.x, Value("Int", <<49>>))>>, Nil),
     aVar |-> Field(Names.a, <<Argument(Names.x, Value("Variable", <<118>>))>>, Nil),
     aNoValue |-> Field(Names.a, <<Argument(Names.x, Nil)>>, Nil),
     aN |-> Field(Names.a, <<>>, Sel(<<Leaf(Names.n)>>)),
     aZ |-> Field(Names.a, <<>>, Sel(<<Leaf(Names.z)>>)),
     aInN |-> Field(Names.a, <<>>, Sel(<<Field(Names.in, <<>>, Sel(<<Leaf(Names.n)>>))>>)),
     aInZ |-> Field(Names.a, <<>>, Sel(<<Field(Names.in, <<>>, Sel(<<Leaf(Names.z)>>))>>))]

Query(fields) == OperationDefinition(Str.query, <<>>, <<>>, Sel(fields))

\* the documents Execute is called with
ExecDocs ==
    { Document(<<>>),
      Document(<<TypeDefinition(<<84>>, <<>>)>>),
      Document(<<TypeDefinition(<<84>>, <<>>), Query(<<Fields.a>>)>>),
      Document(<<Query(<<Fields.a>>), Query(<<Fields.b>>)>>),
      Document(<<OperationDefinition(Str.query, <<>>, <<>>, Nil)>>),
      Document(<<OperationDefinition(Str.mutation, <<>>, <<>>, Sel(<<Fields.a>>))>>) }
    \cup { Document(<<Query(fields)>>) :
             fields \in { <<>>, <<Fields.a>>, <<Fields.b>>,
                          <<Fields.a, Fields.b>>, <<Fields.b, Fields.a>>,
                          <<Fields.a, Fields.a>>,
                          <<Fields.aInt>>, <<Fields.aVar>>, <<Fields.aNoValue>>,
                          <<Fields.aN>>, <<Fields.aZ>>, <<Fields.b, Fields.aZ>>,
                          <<Fields.aInN>>, <<Fields.aInZ>> } }

\* the variables maps: none, and v bound to 7
ExecVariables == {EmptyMap, MapPut(EmptyMap, <<118>>, GoInt(7))}

\* the fields ExecuteSubscription is called with
SubscriptionFields == {Fields.a, Fields.b, Fields.aInt, Fields.aNoValue}

\* the events the resolver's side sends
Events == {GoInt(1), GoInt(2)}

ExecInit ==
    /\ lex = LexerNew(<<>>)
    /\ toks = <<>>
    /\ ParserIdle
    /\ ExecutorIdle

\* the program registers its resolvers before it makes its calls
ExecNext ==
    \/ \E f \in FieldNames, r \in QueryResolverPool :
           call.op = "none" /\ RegisterQueryResolver(f, r)
    \/ \E f \in FieldNames, r \in MutationResolverPool :
           call.op = "none" /\ RegisterMutationResolver(f, r)
    \/ \E f \in FieldNames, r \in SubscriptionResolverPool :
           call.op = "none" /\ RegisterSubscriptionResolver(f, r)
    \/ \E d \in ExecDocs, v \in ExecVariables : CallExecute(d, v)
    \/ \E f \in SubscriptionFields, v \in ExecVariables :
           CallExecuteSubscription(f, v, 0)

ExecSpec == ExecInit /\ [][ExecNext]_vars

SubNext ==
    \/ \E f \in FieldNames, r \in SubscriptionResolverPool :
           call.op = "none" /\ RegisterSubscriptionResolver(f, r)
    \/ \E f \in SubscriptionFields, v \in ExecVariables, cap \in 0..MaxChanCap :
           CallExecuteSubscription(f, v, cap)
    \/ \E event \in Events : Send(event)
    \/ Close
    \/ Receive

SubSpec == ExecInit /\ [][SubNext]_vars

(***************************************************************************)
(* HandlerSpec: the HTTP handler GraphQL on one request, over the global   *)
(* executor of package registry.  The handler decodes the body, lexes and  *)
(* parses the query (the parser machine above), executes and responds.     *)
(***************************************************************************)
\* a request body: not JSON at all, or the JSON of a GraphQLRequest with
\* its query and its variables (hasVariables FALSE: absent or null)
Body(json, query, hasVariables, variables) ==
    [json |-> json, query |-> query, hasVariables |-> hasVariables,
     variables |-> variables]

\* handler.GraphQL up to the call of ParseDocument
GraphQL_decode(body) ==
    /\ http.state = "idle"
    /\ phase = "idle"
    /\ IF ~body.json
       THEN /\ http' = [http EXCEPT !.state = "responded", !.status = 400,
                                     !.body = body]
            /\ UNCHANGED <<lex, parseVars>>
       ELSE /\ http' = [http EXCEPT !.state = "parsing", !.body = body,
                           !.variables = IF body.hasVariables THEN body.variables
                                         ELSE EmptyMap]
            /\ SetCursor(ParserNew(LexerNew(body.query)))
            /\ stack' = <<[fn |-> "ParseDocument", pc |-> "loop"]>>
            /\ ret' = Nil
            /\ doc' = Document(<<>>)
            /\ phase' = "parsing"
            /\ mark' = <<>>
    /\ UNCHANGED <<toks, queryResolvers, mutationResolvers, subscriptionResolvers,
                   call, chan, sent, received, completed, raceVars>>

\* handler.GraphQL from the return of ParseDocument on: Execute, and the
\* response (a panic in the handler aborts the request without a response)
GraphQL_execute ==
    /\ http.state = "parsing"
    /\ phase = "done"
    /\ call' = [op |-> "Execute", doc |-> doc, variables |-> http.variables,
                out |-> Execute(TheExecutor, doc, http.variables)]
    /\ http' = IF call'.out.panic
               THEN [http EXCEPT !.state = "aborted"]
               ELSE IF ~call'.out.err.isNil
               THEN [http EXCEPT !.state = "responded", !.status = 500]
               ELSE [http EXCEPT !.state = "responded", !.status = 200,
                                 !.result = call'.out.response]
    /\ UNCHANGED <<queryResolvers, mutationResolvers, subscriptionResolvers,
                   chan, sent, received, completed, lexVars, parseVars, raceVars>>

\* the queries of the requests
HandlerQueries ==
    {
       \* (the empty query)
       <<>>,
       \* { a }
       <<123, 32, 97, 32, 125>>,
       \* { a b }
       <<123, 32, 97, 32, 98, 32, 125>>,
       \* { b a }
       <<123, 32, 98, 32, 97, 32, 125>>,
       \* type T { a(x: Int): [Int!]! b } { a }
       <<116, 121, 112, 101, 32, 84, 32, 123, 32, 97, 40, 120, 58, 32, 73, 110, 116, 41, 58, 32, 91, 73, 110, 116, 33, 93, 33, 32, 98, 32, 125, 32, 123, 32, 97, 32, 125>>,
       \* query Q($v: [Int!]!) { a(x: 1, y: {k: [1, $v]}) { n } }
       <<113, 117, 101, 114, 121, 32, 81, 40, 36, 118, 58, 32, 91, 73, 110, 116, 33, 93, 33, 41, 32, 123, 32, 97, 40, 120, 58, 32, 49, 44, 32, 121, 58, 32, 123, 107, 58, 32, 91, 49, 44, 32, 36, 118, 93, 125, 41, 32, 123, 32, 110, 32, 125, 32, 125>>,
       \* mutation { a }
       <<109, 117, 116, 97, 116, 105, 111, 110, 32, 123, 32, 97, 32, 125>>,
       \* { a(x) }
       <<123, 32, 97, 40, 120, 41, 32, 125>>,
       \* query
       <<113, 117, 101, 114, 121>>,
       \* { a { n } }
       <<123, 32, 97, 32, 123, 32, 110, 32, 125, 32, 125>>,
       \* { a { z } }
       <<123, 32, 97, 32, 123, 32, 122, 32, 125, 32, 125>>
    }

HandlerBodies ==
    {Body(FALSE, <<>>, FALSE, EmptyMap)}
    \cup {Body(TRUE, q, FALSE, EmptyMap) : q \in HandlerQueries}
    \cup {Body(TRUE, q, TRUE, MapPut(EmptyMap, <<118>>, GoInt(7))) :
             q \in {<<>>, <<123, 32, 97, 32, 125>>}}

HandlerInit ==
    /\ lex = LexerNew(<<>>)
    /\ toks = <<>>
    /\ ParserIdle
    /\ ExecutorIdle

HandlerNext ==
    \/ \E r \in {rX, rErr, rStruct} :
           http.state = "idle" /\ RegisterQueryResolver(Names.a, r)
    \/ \E body \in HandlerBodies : GraphQL_decode(body)
    \/ ParserStep
    \/ GraphQL_execute

HandlerSpec == HandlerInit /\ [][HandlerNext]_vars

(***************************************************************************)
(* RaceSpec: MaxGoroutines goroutines share one Executor; each registers   *)
(* resolvers and dispatches fields.  The Executor has no mutex, so a map   *)
(* assignment or lookup is entered without waiting; it takes time, and     *)
(* another goroutine may enter the same map meanwhile.  A map access that  *)
(* overlapped a write of the same map is a data race: the runtime may      *)
(* throw "concurrent map writes" / "concurrent map read and map write",    *)
(* or go on with the entry written or not, found or not.                   *)
(***************************************************************************)
TableNames == {"query", "mutation", "subscription"}

\* e.queryResolvers, e.mutationResolvers, e.subscriptionResolvers
Table(table) ==
    CASE table = "query" -> queryResolvers
      [] table = "mutation" -> mutationResolvers
      [] table = "subscription" -> subscriptionResolvers

\* the goroutines other than g inside an access to the table that conflicts
\* with an access of this kind: one of the two is a write
Conflicts(g, table, kind) ==
    {h \in Goroutines \ {g} :
        /\ accesses[h].kind # "none"
        /\ accesses[h].table = table
        /\ kind = "write" \/ accesses[h].kind = "write"}

\* goroutine g enters an access; the accesses it overlaps have raced, as it has
Enter(g, kind, table, field, resolver) ==
    [h \in Goroutines |->
        IF h = g
        THEN [kind |-> kind, table |-> table, field |-> field,
              resolver |-> resolver,
              raced |-> Conflicts(g, table, kind) # {}]
        ELSE IF h \in Conflicts(g, table, kind)
        THEN [accesses[h] EXCEPT !.raced = TRUE]
        ELSE accesses[h]]

\* the tables after table[field] = resolver
Assign(table, field, resolver) ==
    /\ queryResolvers' = IF table = "query"
                         THEN MapPut(queryResolvers, field, resolver)
                         ELSE queryResolvers
    /\ mutationResolvers' = IF table = "mutation"
                            THEN MapPut(mutationResolvers, field, resolver)
                            ELSE mutationResolvers
    /\ subscriptionResolvers' = IF table = "subscription"
                                THEN MapPut(subscriptionResolvers, field, resolver)
                                ELSE subscriptionResolvers

\* goroutine g calls Register<table>Resolver(field, resolver) and enters the
\* map assignment: nothing is locked, nothing is waited for
BeginRegister(g, table, field, resolver) ==
    /\ ~fatal
    /\ accesses[g] = NoAccess
    /\ Registered < MaxResolvers \/ field \in DOMAIN Table(table)
    /\ accesses' = Enter(g, "write", table, field, resolver)
    /\ UNCHANGED <<queryResolvers, mutationResolvers, subscriptionResolvers,
                   call, chan, sent, received, completed, http, fatal,
                   lexVars, parseVars>>

\* the map assignment of goroutine g ends, and Register*Resolver returns
EndRegister(g) ==
    /\ ~fatal
    /\ accesses[g].kind = "write"
    /\ \/ /\ Assign(accesses[g].table, accesses[g].field, accesses[g].resolver)
          /\ accesses' = [accesses EXCEPT ![g] = NoAccess]
          /\ UNCHANGED fatal
       \/ /\ accesses[g].raced
          /\ accesses' = [accesses EXCEPT ![g] = NoAccess]
          /\ UNCHANGED <<queryResolvers, mutationResolvers,
                         subscriptionResolvers, fatal>>
       \/ /\ accesses[g].raced
          /\ fatal' = TRUE
          /\ UNCHANGED <<queryResolvers, mutationResolvers,
                         subscriptionResolvers, accesses>>
    /\ UNCHANGED <<call, chan, sent, received, completed, http, lexVars,
                   parseVars>>

\* goroutine g, in resolveField with a nil source, enters the lookup
\* e.queryResolvers[field.Name]
BeginResolveField(g, field) ==
    /\ ~fatal
    /\ accesses[g] = NoAccess
    /\ accesses' = Enter(g, "read", "query", field, Nil)
    /\ UNCHANGED <<queryResolvers, mutationResolvers, subscriptionResolvers,
                   call, chan, sent, received, completed, http, fatal,
                   lexVars, parseVars>>

\* goroutine g, in ExecuteSubscription, enters the lookup
\* e.subscriptionResolvers[field.Name]
BeginExecuteSubscription(g, field) ==
    /\ ~fatal
    /\ accesses[g] = NoAccess
    /\ accesses' = Enter(g, "read", "subscription", field, Nil)
    /\ UNCHANGED <<queryResolvers, mutationResolvers, subscriptionResolvers,
                   call, chan, sent, received, completed, http, fatal,
                   lexVars, parseVars>>

\* the lookup of goroutine g ends: found or not as the table says (either,
\* when it raced with a write); a field not found in the query table is
\* looked up in the mutation table next
EndLookup(g) ==
    /\ ~fatal
    /\ accesses[g].kind = "read"
    /\ \/ \E ok \in BOOLEAN :
            /\ accesses[g].raced \/ ok = (accesses[g].field \in DOMAIN Table(accesses[g].table))
            /\ accesses' =
                 IF ~ok /\ accesses[g].table = "query"
                 THEN LET idle == [accesses EXCEPT ![g] = NoAccess]
                      IN  [h \in Goroutines |->
                             IF h = g
                             THEN [accesses[g] EXCEPT
                                     !.table = "mutation",
                                     !.raced = \E k \in Goroutines \ {g} :
                                                  /\ idle[k].kind = "write"
                                                  /\ idle[k].table = "mutation"]
                             ELSE IF idle[h].kind = "write" /\ idle[h].table = "mutation"
                             THEN [idle[h] EXCEPT !.raced = TRUE]
                             ELSE idle[h]]
                 ELSE [accesses EXCEPT ![g] = NoAccess]
            /\ UNCHANGED fatal
       \/ /\ accesses[g].raced
          /\ fatal' = TRUE
          /\ UNCHANGED accesses
    /\ UNCHANGED <<queryResolvers, mutationResolvers, subscriptionResolvers,
                   call, chan, sent, received, completed, http, lexVars,
                   parseVars>>

RaceResolverPool == {rX, rY}

RaceNext ==
    \/ \E g \in Goroutines, table \in TableNames, f \in FieldNames,
          r \in RaceResolverPool : BeginRegister(g, table, f, r)
    \/ \E g \in Goroutines : EndRegister(g)
    \/ \E g \in Goroutines, f \in FieldNames : BeginResolveField(g, f)
    \/ \E g \in Goroutines, f \in FieldNames : BeginExecuteSubscription(g, f)
    \/ \E g \in Goroutines : EndLookup(g)

RaceSpec == ExecInit /\ [][RaceNext]_vars

(***************************************************************************)
(* ReuseSpec: a program that parses one Document, registers resolvers and  *)
(* then executes that Document again and again, with the same and with     *)
(* different variables, and subscribes to its fields.                      *)
(***************************************************************************)
\* the fields of the selection set of the first definition of the document
TopFields(d) ==
    IF d.Definitions = <<>> THEN {}
    ELSE IF ~IsOperationDefinition(d.Definitions[1]) THEN {}
    ELSE IF d.Definitions[1].SelectionSet.isNil THEN {}
    ELSE {d.Definitions[1].SelectionSet.Selections[i].ptr :
             i \in 1..Len(d.Definitions[1].SelectionSet.Selections)}

\* doc := p.ParseDocument() has returned one of the documents
ReuseInit ==
    /\ lex = LexerNew(<<>>)
    /\ toks = <<>>
    /\ curToken = ZeroToken
    /\ peekToken = ZeroToken
    /\ ntok = 0
    /\ stack = <<>>
    /\ ret = Nil
    /\ doc \in ExecDocs
    /\ phase = "done"
    /\ mark = <<>>
    /\ ExecutorIdle

ReuseNext ==
    \/ \E f \in FieldNames, r \in QueryResolverPool :
           call.op = "none" /\ RegisterQueryResolver(f, r)
    \/ \E f \in FieldNames, r \in MutationResolverPool :
           call.op = "none" /\ RegisterMutationResolver(f, r)
    \/ \E f \in FieldNames, r \in SubscriptionResolverPool :
           call.op = "none" /\ RegisterSubscriptionResolver(f, r)
    \/ \E v \in ExecVariables : CallExecute(doc, v)
    \/ \E f \in TopFields(doc), v \in ExecVariables :
           CallExecuteSubscription(f, v, 0)

ReuseSpec == ReuseInit /\ [][ReuseNext]_vars

(***************************************************************************)
(* DocSpec: lexer.New, parser.New and ParseDocument on whole documents:    *)
(* implicit queries and operations rendered from an AST (every selection   *)
(* set of up to MaxFields fields, every variable list of up to             *)
(* MaxVariables variables), the queries of HandlerSpec, and documents that *)
(* end early or are malformed.                                             *)
(***************************************************************************)
\* the text of a type: Name, Name!, [Elem], [Elem]!
RECURSIVE RenderType(_)
RenderType(t) ==
    (IF t.IsList THEN <<ChLBracket>> \o RenderType(t.Elem) \o <<ChRBracket>>
     ELSE t.Name)
    \o (IF t.NonNull THEN <<ChBang>> ELSE <<>>)

\* the text of a variable list: ($v: T, $w: U), or nothing for no variable;
\* sep separates the definitions
RECURSIVE RenderVariableDefinitions(_, _)
RenderVariableDefinitions(defs, sep) ==
    IF defs = <<>> THEN <<>>
    ELSE <<ChDollar>> \o Head(defs).Variable \o <<ChColon, ChSpace>>
         \o RenderType(Head(defs).Type)
         \o (IF Tail(defs) = <<>> THEN <<>>
             ELSE sep \o RenderVariableDefinitions(Tail(defs), sep))

\* the text of a value: an integer, or $name
RenderValue(v) ==
    IF v.Kind = "Variable" THEN <<ChDollar>> \o v.Literal ELSE v.Literal

\* the text of an argument list: (x: 1), or nothing for no argument
RECURSIVE RenderArguments(_)
RenderArguments(arguments) ==
    IF arguments = <<>> THEN <<>>
    ELSE Head(arguments).Name \o <<ChColon, ChSpace>>
         \o RenderValue(Head(arguments).Value)
         \o (IF Tail(arguments) = <<>> THEN <<>>
             ELSE <<ChComma, ChSpace>> \o RenderArguments(Tail(arguments)))

\* the text of a selection set: { f g(x: 1) h { n } }
RECURSIVE RenderSelections(_, _)
RenderSelections(selections, sep) ==
    IF selections = <<>> THEN <<>>
    ELSE LET f == Head(selections).ptr
         IN  f.Name
             \o (IF f.Arguments = <<>> THEN <<>>
                 ELSE <<ChLParen>> \o RenderArguments(f.Arguments) \o <<ChRParen>>)
             \o (IF f.SelectionSet.isNil THEN <<>>
                 ELSE <<ChSpace, ChLBrace, ChSpace>>
                      \o RenderSelections(f.SelectionSet.Selections, sep)
                      \o <<ChSpace, ChRBrace>>)
             \o (IF Tail(selections) = <<>> THEN <<>>
                 ELSE sep \o RenderSelections(Tail(selections), sep))

RenderSelectionSet(ss, sep) ==
    <<ChLBrace, ChSpace>> \o RenderSelections(ss.Selections, sep)
        \o <<ChSpace, ChRBrace>>

\* the text of an operation, with its keyword: query Q($v: T) { f }
RenderOperation(op, sep) ==
    op.Operation
    \o (IF op.Name = <<>> THEN <<>> ELSE <<ChSpace>> \o op.Name)
    \o (IF op.VariableDefinitions = <<>> THEN <<>>
        ELSE <<ChLParen>> \o RenderVariableDefinitions(op.VariableDefinitions, sep)
             \o <<ChRParen>>)
    \o <<ChSpace>> \o RenderSelectionSet(op.SelectionSet, sep)

\* the separators of a list: a comma, or only a space
Separators == {<<ChComma, ChSpace>>, <<ChSpace>>}

\* hello
Hello == <<104, 101, 108, 108, 111>>

\* the fields of the rendered selection sets: hello, a, b, a(x: 1), a { n }
RenderedFields ==
    {Leaf(Hello), Fields.a, Fields.b, Fields.aInt, Fields.aN}

\* the implicit queries: their text and the operation they were rendered from
ImplicitQueries ==
    {[input |-> RenderSelectionSet(Sel(fs), sep), op |-> Query(fs)] :
        fs \in SeqsUpTo(RenderedFields, MaxFields) \ {<<>>}, sep \in Separators}

\* the types of the rendered variable lists: Int, Int!, [Int], [Int!]!, [[Int]!]
NamedInt(nonNull) == Type(<<73, 110, 116>>, nonNull, FALSE, Nil)
ListOf(elem, nonNull) == Type(<<>>, nonNull, TRUE, elem)
RenderedTypes ==
    {NamedInt(FALSE), NamedInt(TRUE), ListOf(NamedInt(FALSE), FALSE),
     ListOf(NamedInt(TRUE), TRUE), ListOf(ListOf(NamedInt(FALSE), TRUE), FALSE)}

\* the names of the rendered variables: var, id
RenderedVariables == {<<118, 97, 114>>, <<105, 100>>}

RenderedVariableDefinitions ==
    {VariableDefinition(v, t) : v \in RenderedVariables, t \in RenderedTypes}

\* MyQuery
MyQuery == <<77, 121, 81, 117, 101, 114, 121>>

\* the operations written with a keyword: their text and the operation they
\* were rendered from
KeywordOperations ==
    {[input |-> RenderOperation(op, sep), op |-> op] :
        op \in {OperationDefinition(k, n, vs, Sel(<<Leaf(Hello)>>)) :
                  k \in {Str.query, Str.mutation, Str.subscription},
                  n \in {<<>>, MyQuery},
                  vs \in SeqsUpTo(RenderedVariableDefinitions, MaxVariables)},
        sep \in Separators}

\* documents that end early, are malformed, or hold several definitions
OtherDocuments ==
    {
       \* query
       <<113, 117, 101, 114, 121>>,
       \* query Q
       <<113, 117, 101, 114, 121, 32, 81>>,
       \* mutation M($a: Int)
       <<109, 117, 116, 97, 116, 105, 111, 110, 32, 77, 40, 36, 97, 58, 32, 73, 110, 116, 41>>,
       \* { a
       <<123, 32, 97>>,
       \* {
       <<123>>,
       \* { , a }
       <<123, 32, 44, 32, 97, 32, 125>>,
       \* { a } }
       <<123, 32, 97, 32, 125, 32, 125>>,
       \* query Q($a) { a }
       <<113, 117, 101, 114, 121, 32, 81, 40, 36, 97, 41, 32, 123, 32, 97, 32, 125>>,
       \* query Q($: Int) { a }
       <<113, 117, 101, 114, 121, 32, 81, 40, 36, 58, 32, 73, 110, 116, 41, 32, 123, 32, 97, 32, 125>>,
       \* query Q() { a }
       <<113, 117, 101, 114, 121, 32, 81, 40, 41, 32, 123, 32, 97, 32, 125>>,
       \* { a } { b }
       <<123, 32, 97, 32, 125, 32, 123, 32, 98, 32, 125>>,
       \* { a } query Q { b }
       <<123, 32, 97, 32, 125, 32, 113, 117, 101, 114, 121, 32, 81, 32, 123, 32, 98, 32, 125>>,
       \* { }
       <<123, 32, 125>>,
       \* { a { n { z } } b(x: $v, y: "s") }
       <<123, 32, 97, 32, 123, 32, 110, 32, 123, 32, 122, 32, 125, 32, 125, 32, 98, 40, 120, 58, 32, 36, 118, 44, 32, 121, 58, 32, 34, 115, 34, 41, 32, 125>>,
       \* query ($var: Int!) { hello }
       <<113, 117, 101, 114, 121, 32, 40, 36, 118, 97, 114, 58, 32, 73, 110, 116, 33, 41, 32, 123, 32, 104, 101, 108, 108, 111, 32, 125>>,
       \* query Q($a: Int) type T { a } { b }
       <<113, 117, 101, 114, 121, 32, 81, 40, 36, 97, 58, 32, 73, 110, 116, 41, 32, 116, 121, 112, 101, 32, 84, 32, 123, 32, 97, 32, 125, 32, 123, 32, 98, 32, 125>>
    }

\* the argument lists of the rendered type fields: none, (a: Int),
\* (a: [Int], b: Int)
TypeArgumentLists ==
    {<<>>, <<40, 97, 58, 32, 73, 110, 116, 41>>,
     <<40, 97, 58, 32, 91, 73, 110, 116, 93, 44, 32, 98, 58, 32, 73, 110, 116, 41>>}

\* the type annotations of the rendered type fields: none, and ": T" for
\* every T of RenderedTypes (named, non-null, list, nested list)
TypeAnnotations ==
    {<<>>} \cup {<<58, 32>> \o RenderType(t) : t \in RenderedTypes}

\* a declared field but for its name: its argument list and its annotation
TypeFieldDecls == [args : TypeArgumentLists, annotation : TypeAnnotations]

\* the names of the declared fields, by position: f, g, h
TypeFieldNames == <<<<102>>, <<103>>, <<104>>>>

\* the text of the fields from position i on, each followed by a space
RECURSIVE RenderTypeFields(_, _)
RenderTypeFields(decls, i) ==
    IF i > Len(decls) THEN <<>>
    ELSE TypeFieldNames[i] \o decls[i].args \o decls[i].annotation \o <<ChSpace>>
         \o RenderTypeFields(decls, i + 1)

\* type T { f1 ... fn }
RenderTypeDefinition(decls) ==
    <<116, 121, 112, 101, 32, 84, 32, 123, 32>> \o RenderTypeFields(decls, 1) \o <<125>>

\* the type definitions: their text and the fields they were rendered from
TypeDefinitions ==
    {[input |-> RenderTypeDefinition(decls), decls |-> decls] :
        decls \in SeqsUpTo(TypeFieldDecls, MaxTypeFields)}

DocInputs ==
    {q.input : q \in ImplicitQueries} \cup {o.input : o \in KeywordOperations}
        \cup HandlerQueries \cup OtherDocuments
        \cup {t.input : t \in TypeDefinitions}

DocInit ==
    /\ toks = <<>>
    /\ \E input \in DocInputs : StartParse(input)
    /\ ExecutorIdle

DocSpec == DocInit /\ [][ParseNext]_vars

(***************************************************************************)
(* ResolveSpec: a program that registers resolvers and has the executor    *)
(* resolve one field against one source (resolveField, as                  *)
(* executeSelectionSet calls it for each field of a selection set).        *)
(***************************************************************************)
\* struct { A string `json:"b"`; B string `json:"c,omitempty"` }
TaggedStruct ==
    GoStruct(<<StructField(<<65>>, TRUE, <<98>>, GoString(<<65>>)),
               StructField(<<66>>, TRUE, <<99, 44, 111, 109, 105, 116, 101, 109,
                                           112, 116, 121>>, GoString(<<66>>))>>)

\* the sources: no source, structs, pointers to a struct, to nothing and to
\* a string, and values that are no struct
ResolveSources ==
    {GoNil, OuterStruct, GoPtr(OuterStruct), TaggedStruct, GoNilPtr,
     GoPtr(GoString(<<120>>)), GoString(<<120>>), GoInt(1), GoMap(EmptyMap),
     GoSlice(<<OuterStruct>>)}

\* the fields: a, b, c, n, N, in, h, z
ResolveFields ==
    {Leaf(Names.a), Leaf(Names.b), Leaf(<<99>>), Leaf(Names.n), Leaf(<<78>>),
     Leaf(Names.in), Leaf(<<104>>), Leaf(Names.z)}

\* res, err := e.resolveField(source, field, variables)
CallResolveField(source, field, v) ==
    /\ call' = [op |-> "resolveField", source |-> source, field |-> field,
                variables |-> v,
                out |-> resolveField(TheExecutor, source, field, v, <<>>)]
    /\ UNCHANGED <<queryResolvers, mutationResolvers, subscriptionResolvers,
                   chan, sent, received, completed, http, lexVars, parseVars,
                   raceVars>>

ResolveNext ==
    \/ \E f \in FieldNames, r \in QueryResolverPool :
           call.op = "none" /\ RegisterQueryResolver(f, r)
    \/ \E f \in FieldNames, r \in MutationResolverPool :
           call.op = "none" /\ RegisterMutationResolver(f, r)
    \/ \E source \in ResolveSources, field \in ResolveFields, v \in ExecVariables :
           CallResolveField(source, field, v)

ResolveSpec == ExecInit /\ [][ResolveNext]_vars

(***************************************************************************)
(* NestedSpec: a program that registers resolvers and has the executor     *)
(* resolve a nested selection set against the value a resolver returned    *)
(* (resolveNestedSelection, as executeSelectionSet calls it for a field    *)
(* that has a selection set).                                              *)
(***************************************************************************)
\* Inner{N: s} with the json tag n
InnerStruct(s) == GoStruct(<<StructField(<<78>>, TRUE, Names.n, GoString(s))>>)

\* the values resolved: nil, a nil pointer, structs, pointers to a struct
\* and to a string, slices (empty, of structs, of pointers and structs, with
\* a string, with a nil pointer, with a nil interface last and first), a
\* string, an int, a map
NestedValues ==
    {GoNil, GoNilPtr, OuterStruct, GoPtr(OuterStruct), GoPtr(GoString(<<120>>)),
     GoSlice(<<>>),
     GoSlice(<<InnerStruct(<<49>>), InnerStruct(<<50>>)>>),
     GoSlice(<<GoPtr(OuterStruct), InnerStruct(<<50>>), InnerStruct(<<49>>)>>),
     GoSlice(<<InnerStruct(<<49>>), GoString(<<120>>), InnerStruct(<<50>>)>>),
     GoSlice(<<GoNilPtr, InnerStruct(<<49>>)>>),
     GoSlice(<<InnerStruct(<<49>>), GoNil>>),
     GoSlice(<<GoNil, InnerStruct(<<49>>)>>),
     GoString(<<120>>), GoInt(1), GoMap(EmptyMap)}

\* the nested selection sets: { n }, { n in }, { z }, { h }, { in { n } }, { a }
NestedSelectionSets ==
    {Sel(<<Leaf(Names.n)>>), Sel(<<Leaf(Names.n), Leaf(Names.in)>>),
     Sel(<<Leaf(Names.z)>>), Sel(<<Leaf(<<104>>)>>),
     Sel(<<Field(Names.in, <<>>, Sel(<<Leaf(Names.n)>>))>>),
     Sel(<<Leaf(Names.a)>>)}

\* nested, err := e.resolveNestedSelection(res, field.SelectionSet, variables)
CallResolveNestedSelection(res, ss, v) ==
    /\ call' = [op |-> "resolveNestedSelection", res |-> res, ss |-> ss,
                variables |-> v,
                out |-> resolveNestedSelection(TheExecutor, res, ss, v, <<>>)]
    /\ UNCHANGED <<queryResolvers, mutationResolvers, subscriptionResolvers,
                   chan, sent, received, completed, http, lexVars, parseVars,
                   raceVars>>

NestedNext ==
    \/ \E f \in FieldNames, r \in QueryResolverPool :
           call.op = "none" /\ RegisterQueryResolver(f, r)
    \/ \E f \in FieldNames, r \in MutationResolverPool :
           call.op = "none" /\ RegisterMutationResolver(f, r)
    \/ \E res \in NestedValues, ss \in NestedSelectionSets, v \in ExecVariables :
           CallResolveNestedSelection(res, ss, v)

NestedSpec == ExecInit /\ [][NestedNext]_vars

(***************************************************************************)
(* ArgsSpec: the executor materializes the arguments of a field (buildArgs *)
(* as resolveField and ExecuteSubscription call it), for the argument      *)
(* values parseArguments and parseValue produce.                           *)
(***************************************************************************)
ObjectValue(fields) == [Value("Object", <<>>) EXCEPT !.ObjectFields = fields]
ArrayValue(list) == [Value("Array", <<>>) EXCEPT !.List = list]

\* "99999999999999999999": twenty digits, more than an int holds
TwentyNines == [i \in 1..20 |-> 57]

\* the scalar argument values: $v, $u, 7, 007, twenty nines, "s", E, true,
\* false, the Illegal value of a malformed object
ScalarValues ==
    {Value("Variable", <<118>>), Value("Variable", <<117>>),
     Value("Int", <<55>>), Value("Int", <<48, 48, 55>>), Value("Int", TwentyNines),
     Value("String", <<115>>), Value("Enum", <<69>>),
     Value("Boolean", Str.true), Value("Boolean", Str.false),
     Value("Illegal", <<101, 120, 112>>)}

\* the argument values: the scalars, [1, "s", $v], [[2], 1], {}, {a: 1, b: [true]},
\* and no value at all (the argument `x` of `a(x)`)
ArgumentValues ==
    ScalarValues \cup
    {ArrayValue(<<Value("Int", <<49>>), Value("String", <<115>>), Value("Variable", <<118>>)>>),
     ArrayValue(<<ArrayValue(<<Value("Int", <<50>>)>>), Value("Int", <<49>>)>>),
     ArrayValue(<<>>),
     ObjectValue(EmptyMap),
     ObjectValue(MapPut(MapPut(EmptyMap, Names.a, Value("Int", <<49>>)),
                        Names.b, ArrayValue(<<Value("Boolean", Str.true)>>))),
     Nil}

\* the argument lists: at most two arguments named x and z
ArgumentLists ==
    {<<>>} \cup {<<Argument(Names.x, u)>> : u \in ArgumentValues}
           \cup {<<Argument(Names.x, u), Argument(Names.z, w)>> :
                     u \in ArgumentValues, w \in ArgumentValues}

\* args := buildArgs(field, variables)
CallBuildArgs(field, v) ==
    /\ call' = [op |-> "buildArgs", field |-> field, variables |-> v,
                out |-> buildArgs(field, v)]
    /\ UNCHANGED <<queryResolvers, mutationResolvers, subscriptionResolvers,
                   chan, sent, received, completed, http, lexVars, parseVars,
                   raceVars>>

ArgsNext ==
    \E arguments \in ArgumentLists, v \in ExecVariables :
        CallBuildArgs(Field(Names.a, arguments, Nil), v)

ArgsSpec == ExecInit /\ [][ArgsNext]_vars

(***************************************************************************)
(* OrderSpec: a program that registers resolvers, among them one that      *)
(* returns a list with nil elements, and then executes one query of up to  *)
(* MaxFields top-level fields.                                             *)
(***************************************************************************)
\* a resolver that returns []interface{}{nil, nil}
rNilSlice == ResolverFunc("rNilSlice", GoSlice(<<GoNil, GoNil>>), Nil)

OrderResolverPool == {rX, rErr, rStruct, rNilSlice}

\* the top-level fields: a, b, a { n }, a { z }, a { b }, a(x)
OrderFields ==
    {Fields.a, Fields.b, Fields.aN, Fields.aZ,
     Field(Names.a, <<>>, Sel(<<Leaf(Names.b)>>)), Fields.aNoValue}

OrderDocs ==
    {Document(<<Query(fields)>>) : fields \in SeqsUpTo(OrderFields, MaxFields)}

OrderNext ==
    \/ \E f \in FieldNames, r \in OrderResolverPool :
           call.op = "none" /\ RegisterQueryResolver(f, r)
    \/ \E f \in FieldNames, r \in MutationResolverPool :
           call.op = "none" /\ RegisterMutationResolver(f, r)
    \/ \E d \in OrderDocs, v \in ExecVariables :
           call.op = "none" /\ CallExecute(d, v)

OrderSpec == ExecInit /\ [][OrderNext]_vars

(***************************************************************************)
(* UploadSpec: the HTTP handler Upload on one multipart request.  After    *)
(* decoding the form fields operations and map it starts one goroutine per *)
(* entry of the file map; each goroutine retrieves its file and writes it  *)
(* into req.Variables at each of its paths, under the mutex varMu; the     *)
(* handler waits on the WaitGroup wg and then executes the query.  A       *)
(* goroutine is accesses[g]: its place pc and the paths it has left.  The  *)
(* request's query is `{ a }`.                                             *)
(***************************************************************************)
ChDot == 46

\* strings.TrimPrefix(s, prefix)
TrimPrefix(s, prefix) ==
    IF Len(s) >= Len(prefix) /\ SubSeq(s, 1, Len(prefix)) = prefix
    THEN SubSeq(s, Len(prefix) + 1, Len(s)) ELSE s

\* strings.Split(s, ".")
RECURSIVE Split(_)
Split(s) ==
    IF \A i \in 1..Len(s) : s[i] # ChDot THEN <<s>>
    ELSE LET i == CHOOSE k \in 1..Len(s) :
                      s[k] = ChDot /\ \A j \in 1..(k - 1) : s[j] # ChDot
         IN  <<SubSeq(s, 1, i - 1)>> \o Split(SubSeq(s, i + 1, Len(s)))

\* the loop of setNestedValue over the keys left, in the map current
RECURSIVE setNestedKeys(_, _, _)
setNestedKeys(current, keys, value) ==
    IF Len(keys) = 1 THEN MapPut(current, keys[1], value)
    ELSE LET next == IF keys[1] \in DOMAIN current /\ current[keys[1]].kind = "map"
                     THEN current[keys[1]].m ELSE EmptyMap
         IN  MapPut(current, keys[1], GoMap(setNestedKeys(next, Tail(keys), value)))

\* setNestedValue updates nested maps (non-array paths)
setNestedValue(variables, path, value) ==
    [panic |-> FALSE, vars |-> setNestedKeys(variables, Split(path), value)]

\* setNestedArrayValue updates an array element given a path like "files.0";
\* an index below zero is out of range for arr[idx] and for make
setNestedArrayValue(variables, path, value) ==
    LET parts == Split(path)
        idx == Atoi(parts[2])
        arrayKey == parts[1]
    IN  IF Len(parts) # 2 THEN setNestedValue(variables, path, value)
        ELSE IF ~idx.ok THEN setNestedValue(variables, path, value)
        ELSE IF idx.i < 0 THEN [panic |-> TRUE, vars |-> variables]
        ELSE IF arrayKey \in DOMAIN variables /\ variables[arrayKey].kind = "slice"
        THEN LET arr == variables[arrayKey].elems
                 newArr == IF idx.i >= Len(arr)
                           THEN [i \in 1..(idx.i + 1) |->
                                    IF i <= Len(arr) THEN arr[i] ELSE GoNil]
                           ELSE arr
             IN  [panic |-> FALSE,
                  vars |-> MapPut(variables, arrayKey,
                                  GoSlice([newArr EXCEPT ![idx.i + 1] = value]))]
        ELSE [panic |-> FALSE,
              vars |-> MapPut(variables, arrayKey,
                              GoSlice([i \in 1..(idx.i + 1) |->
                                          IF i = idx.i + 1 THEN value ELSE GoNil]))]

\* the body of the loop over paths between varMu.Lock() and varMu.Unlock()
UploadSet(variables, path, value) ==
    LET adjustedPath == TrimPrefix(path, <<118, 97, 114, 105, 97, 98, 108, 101, 115, 46>>)
        parts == Split(adjustedPath)
    IN  IF Len(parts) = 2 /\ Atoi(parts[2]).ok
        THEN setNestedArrayValue(variables, adjustedPath, value)
        ELSE setNestedValue(variables, adjustedPath, value)

\* map[string]interface{}{"filename": header.Filename, "data": fileData} of
\* the file of goroutine g
FileValue(g) ==
    GoMap(MapPut(MapPut(EmptyMap, <<102, 105, 108, 101, 110, 97, 109, 101>>,
                        GoString(<<102, 48 + g>>)),
                 <<100, 97, 116, 97>>, [kind |-> "bytes", b |-> <<g>>]))

\* ParseDocument of the request's query `{ a }`
UploadDoc == Document(<<Query(<<Fields.a>>)>>)

\* Upload from its start to the loop that starts the goroutines
Upload_decode(req) ==
    /\ http.state = "idle"
    /\ http' = [state |-> IF req.operations = "ok" /\ req.map = "ok"
                          THEN "spawning" ELSE "responded",
                status |-> IF req.operations = "ok" /\ req.map = "ok" THEN 0 ELSE 400,
                variables |-> IF req.hasVariables THEN req.variables ELSE EmptyMap,
                result |-> EmptyMap, body |-> req,
                varMu |-> 0, wg |-> 0,
                toSpawn |-> IF req.operations = "ok" /\ req.map = "ok"
                            THEN DOMAIN req.fileMap ELSE {}]
    /\ UNCHANGED <<queryResolvers, mutationResolvers, subscriptionResolvers,
                   call, chan, sent, received, completed, lexVars, parseVars,
                   raceVars>>

\* one iteration of `for fileKey, paths := range fileMap`: wg.Add(1) and the
\* go statement
Upload_spawn(g) ==
    /\ http.state = "spawning"
    /\ ~fatal
    /\ g \in http.toSpawn
    /\ http' = [http EXCEPT !.wg = @ + 1, !.toSpawn = @ \ {g}]
    /\ accesses' = [accesses EXCEPT ![g] =
                       [kind |-> "upload", pc |-> "start",
                        paths |-> http.body.fileMap[g].paths]]
    /\ UNCHANGED <<queryResolvers, mutationResolvers, subscriptionResolvers,
                   call, chan, sent, received, completed, lexVars, parseVars,
                   fatal>>

\* goroutine g is at pc
InUpload(g, pc) ==
    /\ http.state = "spawning"
    /\ ~fatal
    /\ accesses[g].kind = "upload"
    /\ accesses[g].pc = pc

\* the goroutine up to the loop over its paths: r.FormFile and ReadAll; on
\* an error it returns, and the deferred wg.Done() runs
Upload_formFile(g) ==
    /\ InUpload(g, "start")
    /\ IF http.body.fileMap[g].present
       THEN /\ accesses' = [accesses EXCEPT ![g].pc = "loop"]
            /\ UNCHANGED http
       ELSE /\ accesses' = [accesses EXCEPT ![g].pc = "done"]
            /\ http' = [http EXCEPT !.wg = @ - 1]
    /\ UNCHANGED <<queryResolvers, mutationResolvers, subscriptionResolvers,
                   call, chan, sent, received, completed, lexVars, parseVars,
                   fatal>>

\* varMu.Lock()
Upload_lock(g) ==
    /\ InUpload(g, "loop")
    /\ accesses[g].paths # <<>>
    /\ http.varMu = 0
    /\ http' = [http EXCEPT !.varMu = g]
    /\ accesses' = [accesses EXCEPT ![g].pc = "locked"]
    /\ UNCHANGED <<queryResolvers, mutationResolvers, subscriptionResolvers,
                   call, chan, sent, received, completed, lexVars, parseVars,
                   fatal>>

\* the write of the file at the path; a panic in a goroutine ends the process
Upload_write(g) ==
    /\ InUpload(g, "locked")
    /\ LET w == UploadSet(http.variables, Head(accesses[g].paths), FileValue(g))
       IN  /\ http' = [http EXCEPT !.variables = w.vars]
           /\ fatal' = w.panic
    /\ accesses' = [accesses EXCEPT ![g].pc = "written"]
    /\ UNCHANGED <<queryResolvers, mutationResolvers, subscriptionResolvers,
                   call, chan, sent, received, completed, lexVars, parseVars>>

\* varMu.Unlock(), and on to the next path
Upload_unlock(g) ==
    /\ InUpload(g, "written")
    /\ http' = [http EXCEPT !.varMu = 0]
    /\ accesses' = [accesses EXCEPT ![g].pc = "loop", ![g].paths = Tail(@)]
    /\ UNCHANGED <<queryResolvers, mutationResolvers, subscriptionResolvers,
                   call, chan, sent, received, completed, lexVars, parseVars,
                   fatal>>

\* the end of the goroutine: the deferred wg.Done()
Upload_done(g) ==
    /\ InUpload(g, "loop")
    /\ accesses[g].paths = <<>>
    /\ http' = [http EXCEPT !.wg = @ - 1]
    /\ accesses' = [accesses EXCEPT ![g].pc = "done"]
    /\ UNCHANGED <<queryResolvers, mutationResolvers, subscriptionResolvers,
                   call, chan, sent, received, completed, lexVars, parseVars,
                   fatal>>

\* Upload from the handler's place on, as it would be without wg.Wait()
Upload_execute_no_wait ==
    /\ http.state = "spawning"
    /\ ~fatal
    /\ http.toSpawn = {}
    /\ call' = [op |-> "Execute", doc |-> UploadDoc, variables |-> http.variables,
                out |-> Execute(TheExecutor, UploadDoc, http.variables)]
    /\ http' = IF call'.out.panic
               THEN [http EXCEPT !.state = "aborted"]
               ELSE IF ~call'.out.err.isNil
               THEN [http EXCEPT !.state = "responded", !.status = 500]
               ELSE [http EXCEPT !.state = "responded", !.status = 200,
                                 !.result = call'.out.response]
    /\ UNCHANGED <<queryResolvers, mutationResolvers, subscriptionResolvers,
                   chan, sent, received, completed, lexVars, parseVars, raceVars>>

\* Upload from wg.Wait() on: the query is parsed and executed with
\* req.Variables, and the response written
Upload_execute ==
    /\ http.state = "spawning"
    /\ ~fatal
    /\ http.toSpawn = {}
    /\ http.wg = 0
    /\ call' = [op |-> "Execute", doc |-> UploadDoc, variables |-> http.variables,
                out |-> Execute(TheExecutor, UploadDoc, http.variables)]
    /\ http' = IF call'.out.panic
               THEN [http EXCEPT !.state = "aborted"]
               ELSE IF ~call'.out.err.isNil
               THEN [http EXCEPT !.state = "responded", !.status = 500]
               ELSE [http EXCEPT !.state = "responded", !.status = 200,
                                 !.result = call'.out.response]
    /\ UNCHANGED <<queryResolvers, mutationResolvers, subscriptionResolvers,
                   chan, sent, received, completed, lexVars, parseVars, raceVars>>

\* the paths: files.0, files.1, files.00, variables.files.1, docs.0,
\* meta.name, files.-1
UploadPaths ==
    [files0 |-> <<102, 105, 108, 101, 115, 46, 48>>,
     files1 |-> <<102, 105, 108, 101, 115, 46, 49>>,
     files00 |-> <<102, 105, 108, 101, 115, 46, 48, 48>>,
     varFiles1 |-> <<118, 97, 114, 105, 97, 98, 108, 101, 115, 46, 102, 105, 108, 101, 115, 46, 49>>,
     docs0 |-> <<100, 111, 99, 115, 46, 48>>,
     metaName |-> <<109, 101, 116, 97, 46, 110, 97, 109, 101>>,
     filesMinus1 |-> <<102, 105, 108, 101, 115, 46, 45, 49>>]

\* an entry of the file map: the paths of a file key, and whether the form
\* holds a file under that key
FileEntry(paths, present) == [paths |-> paths, present |-> present]

FileEntries ==
    {FileEntry(<<UploadPaths.files0>>, TRUE), FileEntry(<<UploadPaths.files1>>, TRUE),
     FileEntry(<<UploadPaths.files00>>, TRUE),
     FileEntry(<<UploadPaths.varFiles1, UploadPaths.docs0>>, TRUE),
     FileEntry(<<UploadPaths.metaName>>, TRUE),
     FileEntry(<<UploadPaths.filesMinus1>>, TRUE),
     FileEntry(<<UploadPaths.files1>>, FALSE)}

\* the variables of the operations field: absent, {"files": [null, null]}
UploadVariables ==
    {[has |-> FALSE, v |-> EmptyMap],
     [has |-> TRUE, v |-> MapPut(EmptyMap, <<102, 105, 108, 101, 115>>,
                                 GoSlice(<<GoNil, GoNil>>))]}

UploadRequest(operations, variables, map, fileMap) ==
    [operations |-> operations, hasVariables |-> variables.has,
     variables |-> variables.v, map |-> map, fileMap |-> fileMap]

\* the multipart requests: without or with an invalid operations or map
\* field, and with a file map of up to MaxGoroutines entries
UploadRequests ==
    {UploadRequest(o, [has |-> FALSE, v |-> EmptyMap], "ok", <<>>) : o \in {"missing", "invalid"}}
    \cup {UploadRequest("ok", [has |-> FALSE, v |-> EmptyMap], m, <<>>) : m \in {"missing", "invalid"}}
    \cup {UploadRequest("ok", v, "ok", fileMap) :
             v \in UploadVariables, fileMap \in SeqsUpTo(FileEntries, MaxGoroutines)}

UploadNext ==
    \/ http.state = "idle" /\ RegisterQueryResolver(Names.a, rX)
    \/ \E req \in UploadRequests : Upload_decode(req)
    \/ \E g \in Goroutines : Upload_spawn(g)
    \/ \E g \in Goroutines : Upload_formFile(g)
    \/ \E g \in Goroutines : Upload_lock(g)
    \/ \E g \in Goroutines : Upload_write(g)
    \/ \E g \in Goroutines : Upload_unlock(g)
    \/ \E g \in Goroutines : Upload_done(g)
    \/ Upload_execute

UploadSpec == ExecInit /\ [][UploadNext]_vars

(***************************************************************************)
(* Claims about the lexer.                                                 *)
(***************************************************************************)

\* C2: once NextToken has returned an EOF token, every later call on the
\* same lexer returns an EOF token too, whatever bytes the input holds.
EOFIsAbsorbing == [][lastTok.Type = EOF => lastTok'.Type = EOF]_vars

\* C3: the position never decreases, a call that returns a non-EOF token
\* strictly advances it, and one of the first Len(input)+1 calls returns EOF.
LexerAdvances ==
    [][/\ lex'.position >= lex.position
       /\ (lastTok'.Type # EOF => lex'.position > lex.position)
       /\ (calls' >= Len(lex.input) + 1 =>
              \E i \in 1..(Len(lex.input) + 1) : toks'[i].Type = EOF)]_vars

\* C3 witness: an input of two bytes or more whose every byte is a token, so
\* that EOF comes with call Len(input)+1 and no sooner.
LexerAdvancesWitness ==
    /\ Len(lex.input) >= 2
    /\ calls = Len(lex.input) + 1
    /\ \A i \in 1..Len(lex.input) : toks[i].Type # EOF
    /\ lastTok.Type = EOF

(***************************************************************************)
(* Claims about the parser.                                                *)
(***************************************************************************)

\* the parser stands at the head of a loop
AtLoopHead == phase = "parsing" /\ stack # <<>> /\ Top.pc = "loop"

\* C1: for every input string ParseDocument terminates and returns a
\* Document.  The parser is deterministic, so it does not return exactly
\* when it runs out of memory or comes back to the head of a loop in the
\* state it had there the time before (same stack, same tokens consumed,
\* same document): that iteration then repeats for ever.
ParseDocumentReturns ==
    /\ phase # "oom"
    /\ ~(AtLoopHead /\ mark = <<stack, ntok, doc>>)

(***************************************************************************)
(* Claims about the executor and the handler.                              *)
(***************************************************************************)

\* C4: Execute on a Document with zero definitions returns the error "no
\* definitions found", calls no resolver and returns no "data" entry, and
\* the handler GraphQL answers the request with status 500.
NoDefinitionsFails ==
    (call.op = "Execute" /\ Len(call.doc.Definitions) = 0) =>
        /\ ~call.out.panic
        /\ call.out.err = Errorf("no definitions found", <<>>)
        /\ call.out.log = <<>>
        /\ DataKey \notin DOMAIN call.out.response
        /\ http.state = "responded"
        /\ http.status = 500

\* C4 witness: a request with an empty document has been answered with 500
\* by an executor that has a resolver registered.
NoDefinitionsWitness ==
    /\ call.op = "Execute"
    /\ Len(call.doc.Definitions) = 0
    /\ queryResolvers # EmptyMap
    /\ http.state = "responded"
    /\ http.status = 500

\* C5: what Execute does depends on Definitions[0] only: it does what it
\* does on the document of that one definition; if that definition is not
\* an operation it fails with "unsupported definition type" and calls no
\* resolver, whatever definitions follow; and it makes no resolver call for
\* a field that is not a top-level field of Definitions[0].
FirstDefinitionOnly ==
    (call.op = "Execute" /\ Len(call.doc.Definitions) >= 1) =>
        LET first == call.doc.Definitions[1]
        IN  /\ call.out = Execute(TheExecutor, Document(<<first>>), call.variables)
            /\ ~IsOperationDefinition(first) =>
                   /\ ~call.out.panic
                   /\ call.out.err = Errorf("unsupported definition type", <<>>)
                   /\ call.out.response = EmptyMap
                   /\ call.out.log = <<>>
            /\ \A i \in DOMAIN call.out.log :
                   /\ IsOperationDefinition(first)
                   /\ ~first.SelectionSet.isNil
                   /\ \E j \in DOMAIN first.SelectionSet.Selections :
                          first.SelectionSet.Selections[j].ptr.Name = call.out.log[i].name

\* C5 witness: a type definition followed by an operation whose field has a
\* resolver registered; Execute has failed with "unsupported definition type".
FirstDefinitionOnlyWitness ==
    /\ call.op = "Execute"
    /\ Len(call.doc.Definitions) = 2
    /\ ~IsOperationDefinition(call.doc.Definitions[1])
    /\ IsOperationDefinition(call.doc.Definitions[2])
    /\ call.doc.Definitions[2].SelectionSet.Selections[1].ptr.Name \in DOMAIN queryResolvers
    /\ call.out.err = Errorf("unsupported definition type", <<>>)

\* C6: when the first definition is an operation whose top-level fields are
\* leaf fields that each have a registered resolver (the query table's, else
\* the mutation table's) that returns no error, Execute returns no error and
\* a map with the one key "data", whose value maps each selected field name
\* to the value its resolver returned.
LeafFieldsResolve ==
    (/\ call.op = "Execute"
     /\ Len(call.doc.Definitions) >= 1
     /\ IsOperationDefinition(call.doc.Definitions[1])
     /\ ~call.doc.Definitions[1].SelectionSet.isNil
     /\ \A i \in DOMAIN call.doc.Definitions[1].SelectionSet.Selections :
            LET f == call.doc.Definitions[1].SelectionSet.Selections[i].ptr
            IN  /\ f.SelectionSet.isNil
                /\ \/ f.Name \in DOMAIN queryResolvers /\ queryResolvers[f.Name].err.isNil
                   \/ /\ f.Name \notin DOMAIN queryResolvers
                      /\ f.Name \in DOMAIN mutationResolvers
                      /\ mutationResolvers[f.Name].err.isNil) =>
        LET sels == call.doc.Definitions[1].SelectionSet.Selections
            names == {sels[i].ptr.Name : i \in DOMAIN sels}
        IN  /\ ~call.out.panic
            /\ call.out.err.isNil
            /\ DOMAIN call.out.response = {DataKey}
            /\ call.out.response[DataKey] =
                   GoMap([n \in names |-> IF n \in DOMAIN queryResolvers
                                          THEN queryResolvers[n].res
                                          ELSE mutationResolvers[n].res])

\* C7: for the first top-level field of the operation (resolved against the
\* nil source), Execute calls the query table's resolver when the query table
\* holds the field name (and then no mutation resolver for that name), else
\* the mutation table's resolver when the mutation table holds it, in both
\* cases with the nil source and the field's materialized arguments; when
\* neither table holds the name it fails with "no resolver found for field
\* <name>".  No resolver is ever taken from the subscription table.
TopLevelLookupOrder ==
    (/\ call.op = "Execute"
     /\ Len(call.doc.Definitions) >= 1
     /\ IsOperationDefinition(call.doc.Definitions[1])
     /\ ~call.doc.Definitions[1].SelectionSet.isNil
     /\ call.doc.Definitions[1].SelectionSet.Selections # <<>>) =>
        LET f == call.doc.Definitions[1].SelectionSet.Selections[1].ptr
            args == buildArgsLoop(f.Arguments, call.variables, EmptyMap).args
            log == call.out.log
        IN  /\ f.Name \in DOMAIN queryResolvers =>
                   /\ log # <<>>
                   /\ log[1] = Invocation("query", f.Name, queryResolvers[f.Name],
                                          GoNil, args)
                   /\ \A i \in DOMAIN log :
                          log[i].name = f.Name => log[i].table = "query"
            /\ (f.Name \notin DOMAIN queryResolvers
                    /\ f.Name \in DOMAIN mutationResolvers) =>
                   /\ log # <<>>
                   /\ log[1] = Invocation("mutation", f.Name,
                                          mutationResolvers[f.Name], GoNil, args)
            /\ (f.Name \notin DOMAIN queryResolvers
                    /\ f.Name \notin DOMAIN mutationResolvers) =>
                   /\ ~call.out.panic
                   /\ call.out.err = Errorf("no resolver found for field %s", f.Name)
                   /\ log = <<>>
            /\ \A i \in DOMAIN log : log[i].table \in {"query", "mutation"}

\* C8: whenever Execute returns an error, the map it returns is empty: it
\* has no "data" entry and no value of a field resolved before the failure.
AllOrNothing ==
    (call.op = "Execute" /\ ~call.out.panic /\ ~call.out.err.isNil) =>
        call.out.response = EmptyMap

\* C8 witness: Execute has returned the error of a nested lookup that failed
\* after two resolvers had returned their values.
AllOrNothingWitness ==
    /\ call.op = "Execute"
    /\ ~call.out.panic
    /\ ~call.out.err.isNil
    /\ call.out.err.format = "no resolver found for field %s via reflection"
    /\ Len(call.out.log) = 2
    /\ \A i \in 1..2 : call.out.log[i].err.isNil

\* C9: ExecuteSubscription fails with "no subscription resolver found" when
\* the subscription table does not hold the field name, whatever the query
\* and mutation tables hold, and with "did not return a channel" when the
\* resolver returned no error and a value that is not a receive-only or
\* bidirectional channel; in both cases it returns the nil channel.
SubscriptionErrors ==
    call.op = "ExecuteSubscription" =>
        /\ call.field.Name \notin DOMAIN subscriptionResolvers =>
               /\ ~call.out.panic
               /\ call.out.err = Errorf("no subscription resolver found for field %s",
                                        call.field.Name)
               /\ call.out.ch = NilChan
               /\ call.out.log = <<>>
        /\ (/\ call.out.log # <<>>
            /\ call.out.log[1].err.isNil
            /\ ~(call.out.log[1].res.kind = "chan"
                    /\ call.out.log[1].res.dir \in {"recv", "bidi"})) =>
               /\ ~call.out.panic
               /\ call.out.err =
                      Errorf("subscription resolver for field %s did not return a channel",
                             call.field.Name)
               /\ call.out.ch = NilChan

\* C9 witness: the field has a query resolver and no subscription resolver,
\* and ExecuteSubscription has failed with "no subscription resolver found".
SubscriptionErrorsWitness ==
    /\ call.op = "ExecuteSubscription"
    /\ call.field.Name \in DOMAIN queryResolvers
    /\ call.field.Name \notin DOMAIN subscriptionResolvers
    /\ ~call.out.err.isNil
    /\ call.out.err.format = "no subscription resolver found for field %s"

TableAccessSerialized ==
    \A g \in Goroutines, h \in Goroutines :
        (/\ g # h
         /\ accesses[g].kind = "write"
         /\ accesses[h].kind # "none")
        => accesses[g].table # accesses[h].table


(***************************************************************************)
(* Claims about the executor and the AST.                                  *)
(***************************************************************************)
\* variables[name] of Go: nil when the name is not bound
Binding(variables, name) ==
    IF name \in DOMAIN variables THEN variables[name] ELSE GoNil

\* the resolver call inv was given, for every argument of field f that is a
\* variable, the value the variables bind it to
BoundFrom(inv, f, variables) ==
    /\ f.Name = inv.name
    /\ \A k \in 1..Len(f.Arguments) :
          (/\ ~f.Arguments[k].Value.isNil
           /\ f.Arguments[k].Value.Kind = "Variable")
          => /\ f.Arguments[k].Name \in DOMAIN inv.args
             /\ inv.args[f.Arguments[k].Name]
                    = Binding(variables, f.Arguments[k].Value.Literal)

Input == lex.input

QueryVarIntBang ==
    <<113, 117, 101, 114, 121, 32, 40, 36, 118, 97, 114, 58, 32, 73, 110, 116, 33, 41, 32, 123, 32, 104, 101, 108, 108, 111, 32, 125>>

\* C14: when ParseDocument has returned from an operation written with a
\* keyword, an optional name and k variable definitions, the document is
\* that one operation: its name, and the k definitions in order, each with
\* the variable's name without '$' and its type, NonNull at the levels that
\* a '!' follows.
KeywordOperationParsed ==
    phase = "done" =>
        /\ \A o \in KeywordOperations :
              o.input = Input => doc = Document(<<o.op>>)
        /\ Input = QueryVarIntBang =>
              doc = Document(<<OperationDefinition(Str.query, <<>>,
                        <<VariableDefinition(<<118, 97, 114>>, NamedInt(TRUE))>>,
                        Sel(<<Leaf(Hello)>>))>>)

\* mutation MyQuery($var: [[Int]!], $id: [Int!]!) { hello } has been parsed
KeywordOperationParsedWitness ==
    /\ phase = "done"
    /\ Input = RenderOperation(
                   OperationDefinition(Str.mutation, MyQuery,
                       <<VariableDefinition(<<118, 97, 114>>,
                             ListOf(ListOf(NamedInt(FALSE), TRUE), FALSE)),
                         VariableDefinition(<<105, 100>>,
                             ListOf(NamedInt(TRUE), TRUE))>>,
                       Sel(<<Leaf(Hello)>>)),
                   <<ChComma, ChSpace>>)
    /\ Len(doc.Definitions) = 1
    /\ doc.Definitions[1].Name = MyQuery
    /\ Len(doc.Definitions[1].VariableDefinitions) = 2
    /\ doc.Definitions[1].VariableDefinitions[1].Type.Elem.NonNull
    /\ ~doc.Definitions[1].VariableDefinitions[1].Type.NonNull
    /\ doc.Definitions[1].VariableDefinitions[2].Type.NonNull

\* C15: every OperationDefinition of the Document ParseDocument returned has
\* a SelectionSet.
OperationsHaveSelectionSet ==
    phase = "done" =>
        \A i \in 1..Len(doc.Definitions) :
            IsOperationDefinition(doc.Definitions[i])
            => ~doc.Definitions[i].SelectionSet.isNil


(***************************************************************************)
(* Further claims about the lexer.                                         *)
(***************************************************************************)
\* a byte that is no whitespace, no punctuation mark, no double quote, no
\* letter or underscore, no digit and not the end-of-input marker
IsOtherByte(ch) ==
    /\ ch \notin {ChSpace, ChTab, ChNewline, ChReturn}
    /\ SingleCharType(ch) = ""
    /\ ch # ChQuote
    /\ ~isLetter(ch)
    /\ ~isDigit(ch)
    /\ ch # ChNul

\* C16: a call of NextToken that finds, after the whitespace, such a byte
\* returns one ILLEGAL token whose literal is that one byte, and leaves the
\* lexer one byte further.
IllegalByteLexed ==
    [][(toks' # toks /\ IsOtherByte(skipWhitespace(lex).ch)) =>
          /\ toks' = Append(toks, Token(ILLEGAL, <<skipWhitespace(lex).ch>>))
          /\ lex'.position = skipWhitespace(lex).position + 1]_vars


\* the bytes of the input after the byte at 0-based position pos
After(input, pos) == SubSeq(input, pos + 2, Len(input))

\* the number of bytes of rest before its first '"', all of them if it has none
BeforeQuote(rest) ==
    IF \E i \in 1..Len(rest) : rest[i] = ChQuote
    THEN (CHOOSE i \in 1..Len(rest) :
              /\ rest[i] = ChQuote
              /\ \A j \in 1..(i - 1) : rest[j] # ChQuote) - 1
    ELSE Len(rest)

\* C17: a call of NextToken that finds, after the whitespace, a '"' returns a
\* STRING token whose literal is the bytes after it up to the next '"' or
\* the end of the input; with a closing quote the lexer is left just after
\* it, and without one the next token is EOF.
StringLexed ==
    [][(toks' # toks /\ skipWhitespace(lex).ch = ChQuote) =>
          LET open == skipWhitespace(lex).position
              rest == After(lex.input, open)
              n == BeforeQuote(rest)
          IN  /\ toks' = Append(toks, Token(STRINGTOK, SubSeq(rest, 1, n)))
              /\ IF n < Len(rest)
                 THEN lex'.position = open + n + 2
                 ELSE NextToken(lex').tok.Type = EOF]_vars


(***************************************************************************)
(* Further claims about the handler.                                       *)
(***************************************************************************)
\* the bindings the handler is to execute the request with: the variables
\* of the body, none when the body has no variables or null
RequestBindings ==
    IF http.body.hasVariables THEN http.body.variables ELSE EmptyMap

\* C18: a request whose body is not valid JSON is answered 400 with nothing
\* lexed, parsed or executed; once the Document of a valid body is parsed and
\* the handler has gone on, the request is answered 500 if Execute of that
\* Document with the request's bindings returns an error, and 200 with the
\* result mapping otherwise.
HandlerAnswers ==
    /\ (http.state # "idle" /\ ~http.body.json) =>
          /\ http.state = "responded"
          /\ http.status = 400
          /\ phase = "idle"
          /\ ntok = 0
          /\ call.op = "none"
    /\ (http.body.json /\ http.state \notin {"idle", "parsing"}) =>
          /\ phase = "done"
          /\ http.state = "responded"
          /\ IF ~Execute(TheExecutor, doc, RequestBindings).err.isNil
             THEN http.status = 500
             ELSE /\ http.status = 200
                  /\ http.result = Execute(TheExecutor, doc, RequestBindings).response


(***************************************************************************)
(* Further claims about the parser.                                        *)
(***************************************************************************)
\* the functions whose loop parses or skips a delimited list
ListLoops ==
    {"parseVariableDefinitions", "parseSelectionSet", "parseArguments",
     "parseObject", "parseArray", "skipTypeDefinition", "skipParenBlock"}

\* the parser stands at the head of a list loop, and the loop head it stood
\* at last was this one: one iteration of the loop lies between the two
\* (an iteration that runs an inner loop passes that loop's head, and
\* consumes the inner list's opening token)
IterationDone ==
    /\ AtLoopHead
    /\ Top.fn \in ListLoops
    /\ mark # <<>>
    /\ Len(mark[1]) = Len(stack)
    /\ mark[1][Len(stack)].fn = Top.fn

\* C19: every iteration of a list loop consumes at least one token: back at
\* the head of the loop, the parser has made more nextToken calls than it
\* had made at the head before.
LoopIterationConsumes == IterationDone => ntok > mark[2]


(***************************************************************************)
(* Further claims about the executor.                                      *)
(***************************************************************************)
\* member i of the struct matches the field name: by its name without
\* regard to case, or by the name of its json tag
MemberMatches(sf, name) ==
    \/ EqualFold(sf.Name, name)
    \/ sf.hasTag /\ EqualFold(TagName(sf.tag), name)

\* the first member of the struct that matches, 0 if none does
FirstMatch(members, name) ==
    IF \E i \in 1..Len(members) : MemberMatches(members[i], name)
    THEN CHOOSE i \in 1..Len(members) :
             /\ MemberMatches(members[i], name)
             /\ \A j \in 1..(i - 1) : ~MemberMatches(members[j], name)
    ELSE 0

\* what the source refers to: the struct a non-nil pointer points to
Deref(source) ==
    IF source.kind = "ptr" /\ ~source.isNil THEN source.elem ELSE source

\* C20: resolveField against a source that is not nil calls no resolver and
\* returns the value of the first member of the struct that matches the
\* field name; it fails with "source is nil" on a nil pointer, "source is
\* not a struct" on anything that is no struct, and "no resolver found ...
\* via reflection" when no member matches.
StructuralLookup ==
    (call.op = "resolveField" /\ call.source.kind # "nil") =>
        /\ ~call.out.panic
        /\ call.out.log = <<>>
        /\ IF call.source.kind = "ptr" /\ call.source.isNil
           THEN call.out.err = Errorf("source is nil", <<>>)
           ELSE IF Deref(call.source).kind # "struct"
           THEN call.out.err = Errorf("source is not a struct", <<>>)
           ELSE IF FirstMatch(Deref(call.source).fields, call.field.Name) = 0
           THEN call.out.err =
                    Errorf("no resolver found for field %s via reflection",
                           call.field.Name)
           ELSE /\ call.out.err.isNil
                /\ call.out.res =
                       Deref(call.source).fields[
                           FirstMatch(Deref(call.source).fields,
                                      call.field.Name)].value


\* the nested selection applied to one value
Selected(value) ==
    executeSelectionSet(TheExecutor, value, call.ss, call.variables, <<>>)

\* the value is a struct or a non-nil pointer to one
IsRecord(value) ==
    \/ value.kind = "struct"
    \/ value.kind = "ptr" /\ ~value.isNil /\ value.elem.kind = "struct"

\* the elements of the slice before element i were all selected
SelectedBefore(elems, i) ==
    \A j \in 1..(i - 1) : ~Selected(elems[j]).panic /\ Selected(elems[j]).err.isNil

\* C21: resolveNestedSelection handles the resolved value by its shape: a
\* struct or a non-nil pointer to one is selected into a map (or fails with
\* the error of the selection); a slice of n elements becomes the slice of
\* the n maps selected from its elements, in order, or fails with the error
\* of the first element that fails; any other value, nil included, is
\* returned as it is, without error.
NestedByShape ==
    call.op = "resolveNestedSelection" =>
        /\ ~call.out.panic
        /\ IF IsRecord(call.res)
           THEN /\ call.out.err = Selected(call.res).err
                /\ call.out.err.isNil =>
                      /\ call.out.res = Selected(call.res).res
                      /\ call.out.res.kind = "map"
           ELSE IF call.res.kind = "slice"
           THEN IF \A i \in 1..Len(call.res.elems) : Selected(call.res.elems[i]).err.isNil
                THEN /\ call.out.err.isNil
                     /\ call.out.res =
                            GoSlice([i \in 1..Len(call.res.elems) |->
                                        Selected(call.res.elems[i]).res])
                ELSE \E i \in 1..Len(call.res.elems) :
                        /\ SelectedBefore(call.res.elems, i)
                        /\ ~Selected(call.res.elems[i]).err.isNil
                        /\ call.out.err = Selected(call.res.elems[i]).err
           ELSE /\ call.out.err.isNil
                /\ call.out.res = call.res
                /\ call.out.log = <<>>


\* the int a literal denotes in base 10, 0 when it denotes none
IntOf(literal) ==
    IF /\ literal # <<>>
       /\ \A i \in 1..Len(literal) : 48 <= literal[i] /\ literal[i] <= 57
       /\ Len(StripZeros(literal)) < Len(MaxIntDigits)
    THEN DecimalValue(StripZeros(literal)) ELSE 0

\* the Go value an argument value stands for under the bindings
RECURSIVE Materialized(_, _)
Materialized(val, variables) ==
    CASE val.Kind = "Variable" ->
             IF val.Literal \in DOMAIN variables THEN variables[val.Literal] ELSE GoNil
      [] val.Kind = "Int" -> GoInt(IntOf(val.Literal))
      [] val.Kind \in {"String", "Enum", "Illegal"} -> GoString(val.Literal)
      [] val.Kind = "Boolean" -> GoBool(val.Literal = <<116, 114, 117, 101>>)
      [] val.Kind = "Object" ->
             GoMap([k \in DOMAIN val.ObjectFields |->
                       Materialized(val.ObjectFields[k], variables)])
      [] val.Kind = "Array" ->
             GoSlice([i \in 1..Len(val.List) |-> Materialized(val.List[i], variables)])

\* C22: buildArgs never fails: it returns a map that holds, for each
\* argument name, the value its Value stands for (a Variable its binding or
\* nil, an Int its base-10 value or 0, a String, Enum or Illegal its
\* literal, a Boolean whether its literal is "true", an Object and an Array
\* the recursively materialized map and slice, the Array in order).
ArgumentsMaterialized ==
    call.op = "buildArgs" =>
        /\ ~call.out.panic
        /\ DOMAIN call.out.args =
               {call.field.Arguments[i].Name : i \in 1..Len(call.field.Arguments)}
        /\ \A i \in 1..Len(call.field.Arguments) :
               ~call.field.Arguments[i].Value.isNil =>
                   call.out.args[call.field.Arguments[i].Name] =
                       Materialized(call.field.Arguments[i].Value, call.variables)


\* the value a token that opens neither an object nor an array stands for;
\* next is the token after it
Classified(tok, next) ==
    CASE tok.Type = INT -> Value("Int", tok.Literal)
      [] tok.Type = STRINGTOK -> Value("String", tok.Literal)
      [] tok.Type = IDENT /\ tok.Literal \in {<<116, 114, 117, 101>>, <<102, 97, 108, 115, 101>>} ->
             Value("Boolean", tok.Literal)
      [] tok.Type = IDENT -> Value("Enum", tok.Literal)
      [] tok.Type = DOLLAR ->
             Value("Variable", IF next.Type = IDENT THEN next.Literal ELSE <<>>)
      [] OTHER -> Value("Illegal", tok.Literal)

\* the step returns from a call of fn
ReturnsFrom(fn) ==
    /\ phase = "parsing"
    /\ stack # <<>>
    /\ Top.fn = fn
    /\ Len(stack') = Len(stack) - 1

\* the step hands the call of parseValue over to fn (return p.fn())
HandsOverTo(fn) ==
    /\ Len(stack') = Len(stack)
    /\ stack'[Len(stack)].fn = fn
    /\ stack'[Len(stack)].pc = "start"
    /\ ntok' = ntok

\* what every step of a call of parseValue does, but for the result of a
\* malformed object literal: the token decides between a scalar, an object
\* and an array; a scalar is classified by its token and consumed; an object
\* and an array consume their opening token before anything else, and
\* return the fields and the elements collected
ValueStep ==
    /\ (At("parseValue", "start") /\ curToken.Type \notin {LBRACE, LBRACKET}) =>
          /\ ReturnsFrom("parseValue")
          /\ ret' = Classified(curToken, peekToken)
          /\ ntok' > ntok
    /\ (At("parseValue", "start") /\ curToken.Type = LBRACE) => HandsOverTo("parseObject")
    /\ (At("parseValue", "start") /\ curToken.Type = LBRACKET) => HandsOverTo("parseArray")
    /\ (At("parseObject", "start") \/ At("parseArray", "start")) =>
          /\ ntok' > ntok
          /\ Len(stack') = Len(stack)
    /\ (ReturnsFrom("parseObject") /\ curToken.Type \in {RBRACE, EOF}) =>
          /\ ret'.Kind = "Object"
          /\ ret'.ObjectFields = Top.objFields
    /\ ReturnsFrom("parseArray") =>
          /\ curToken.Type \in {RBRACKET, EOF}
          /\ ret'.Kind = "Array"
          /\ ret'.List = Top.arr

\* the step returns from parseObject at a key position that holds no
\* identifier, or at a key that no colon follows
MalformedKey == ReturnsFrom("parseObject") /\ curToken.Type \notin {RBRACE, EOF, IDENT}
MalformedColon == ReturnsFrom("parseObject") /\ curToken.Type = IDENT

TypeFieldsKept ==
    \A t \in TypeDefinitions :
        (phase = "done" /\ Input = t.input) =>
            doc.Definitions =
                <<TypeDefinition(<<84>>,
                                 [i \in 1..Len(t.decls) |->
                                     Field(TypeFieldNames[i], <<>>, Nil)])>>


\* C25: Execute on a Document that ParseDocument returned completes: it
\* returns a result mapping (the key "data" bound to a map) or an error, and
\* never panics.
ExecuteCompletes ==
    (call.op = "Execute" /\ phase = "done" /\ call.doc = doc) =>
        /\ ~call.out.panic
        /\ \/ ~call.out.err.isNil
           \/ /\ DOMAIN call.out.response = {DataKey}
              /\ call.out.response[DataKey].kind = "map"


\* C26: the fields of a nested selection set are never dispatched to the
\* resolver tables: resolving a nested selection against the value the
\* parent resolved to, whatever that value is, invokes no registered
\* resolver.
NestedNeverDispatched ==
    call.op = "resolveNestedSelection" => call.out.log = <<>>


\* the top-level selections of the operation Execute was called with
TopSelections == call.doc.Definitions[1].SelectionSet.Selections

\* the field of top-level selection j was resolved without failure, given
\* what its resolver returned: the resolver returned no error, and the
\* nested selection set, if any, was resolved against its result
FieldResolved(j) ==
    /\ call.out.log[j].err.isNil
    /\ ~TopSelections[j].ptr.SelectionSet.isNil =>
          LET nested == resolveNestedSelection(TheExecutor, call.out.log[j].res,
                            TopSelections[j].ptr.SelectionSet, call.variables, <<>>)
          IN  ~nested.panic /\ nested.err.isNil /\ nested.log = <<>>

\* C27: within one Execute call the resolver invocations are those of the
\* top-level fields, in the source order of the selection set and one per
\* occurrence: invocation j is the resolver of field j; every field before
\* the last one invoked was resolved, its nested selection included; no
\* resolver is invoked after the first field that fails; and a call that
\* succeeds has invoked the resolver of every field.
ResolversInOrder ==
    (/\ call.op = "Execute"
     /\ Len(call.doc.Definitions) >= 1
     /\ IsOperationDefinition(call.doc.Definitions[1])
     /\ ~call.doc.Definitions[1].SelectionSet.isNil) =>
        /\ Len(call.out.log) <= Len(TopSelections)
        /\ \A j \in 1..Len(call.out.log) :
              /\ call.out.log[j].name = TopSelections[j].ptr.Name
              /\ call.out.log[j].source = GoNil
              /\ call.out.log[j].table \in {"query", "mutation"}
        /\ \A j \in 1..(Len(call.out.log) - 1) : FieldResolved(j)
        /\ (~call.out.panic /\ call.out.err.isNil) =>
              /\ Len(call.out.log) = Len(TopSelections)
              /\ \A j \in 1..Len(call.out.log) : FieldResolved(j)


(***************************************************************************)
(* Claims about the upload handler.                                        *)
(***************************************************************************)
\* the places (file key, position) of the paths of the request's file map
PathPlaces(req) ==
    UNION {{<<g, i>> : i \in 1..Len(req.fileMap[g].paths)} : g \in DOMAIN req.fileMap}

\* the path at a place as the handler reads it: without the prefix
\* "variables.", split at the dots
PathParts(req, pl) ==
    Split(TrimPrefix(req.fileMap[pl[1]].paths[pl[2]],
                     <<118, 97, 114, 105, 97, 98, 108, 101, 115, 46>>))

\* every path of the file map has the shape name.index
IndexPaths(req) ==
    \A pl \in PathPlaces(req) :
        Len(PathParts(req, pl)) = 2 /\ Atoi(PathParts(req, pl)[2]).ok

\* the paths of the file map have the shape name.index and are distinct
DistinctPaths(req) ==
    /\ IndexPaths(req)
    /\ \A pl, pm \in PathPlaces(req) :
          pl # pm => req.fileMap[pl[1]].paths[pl[2]] # req.fileMap[pm[1]].paths[pm[2]]

\* the paths of the file map have the shape name.index and denote distinct
\* elements: they differ in the name or in the number the index denotes
DistinctElements(req) ==
    /\ IndexPaths(req)
    /\ \A pl, pm \in PathPlaces(req) :
          pl # pm =>
              \/ PathParts(req, pl)[1] # PathParts(req, pm)[1]
              \/ Atoi(PathParts(req, pl)[2]).i # Atoi(PathParts(req, pm)[2]).i

\* the variables after the files were written one after the other, in the
\* order of the file keys and of their paths
RECURSIVE WritePaths(_, _, _)
WritePaths(variables, paths, g) ==
    IF paths = <<>> THEN variables
    ELSE WritePaths(UploadSet(variables, Head(paths), FileValue(g)).vars, Tail(paths), g)

RECURSIVE WriteFiles(_, _, _)
WriteFiles(variables, fileMap, g) ==
    IF g > Len(fileMap) THEN variables
    ELSE WriteFiles(IF fileMap[g].present
                    THEN WritePaths(variables, fileMap[g].paths, g) ELSE variables,
                    fileMap, g + 1)

OneByOne(req) ==
    WriteFiles(IF req.hasVariables THEN req.variables ELSE EmptyMap, req.fileMap, 1)

\* a step that changes req.Variables while the goroutines run is the write
\* of a goroutine that holds varMu
WriteHoldsMutex ==
    (/\ http.state = "spawning"
     /\ http'.state = "spawning"
     /\ http'.variables # http.variables) =>
        \E g \in Goroutines :
            /\ http.varMu = g
            /\ accesses[g].kind = "upload"
            /\ accesses[g].pc = "locked"
            /\ accesses'[g].pc = "written"

\* Execute was called after every goroutine of the file map had finished,
\* and no write has been made since
ExecuteAfterGoroutines ==
    call.op = "Execute" =>
        /\ http.toSpawn = {}
        /\ \A g \in DOMAIN http.body.fileMap :
              accesses[g].kind = "upload" /\ accesses[g].pc = "done"
        /\ http.variables = call.variables

\* C28 as stated: every write of a goroutine to req.Variables is made under
\* the mutex and before Execute is called, which starts only after all the
\* goroutines have finished; and for files mapped to distinct name.index
\* paths the variables passed to Execute are those of the files written
\* one after the other, whatever the interleaving was.
UploadSameForDistinctPaths ==
    /\ [][WriteHoldsMutex]_vars
    /\ [](/\ ExecuteAfterGoroutines
          /\ (call.op = "Execute" /\ DistinctPaths(http.body)) =>
                 call.variables = OneByOne(http.body))

\* C28, amended: as stated, for files mapped to name.index paths that denote
\* distinct elements (distinct names, or indexes that denote distinct
\* numbers, read after the prefix "variables." is removed).
UploadSameForDistinctElements ==
    /\ [][WriteHoldsMutex]_vars
    /\ [](/\ ExecuteAfterGoroutines
          /\ (call.op = "Execute" /\ DistinctElements(http.body)) =>
                 call.variables = OneByOne(http.body))

\* Execute was called after MaxGoroutines goroutines had each written its
\* file at paths that denote distinct elements
UploadSameWitness ==
    /\ call.op = "Execute"
    /\ Len(http.body.fileMap) = MaxGoroutines
    /\ DistinctElements(http.body)
    /\ \A g \in DOMAIN http.body.fileMap :
          http.body.fileMap[g].present /\ http.body.fileMap[g].paths # <<>>
    /\ call.variables = OneByOne(http.body)
    /\ call.variables # (IF http.body.hasVariables THEN http.body.variables ELSE EmptyMap)

====
